---- MODULE Spec2Model ----
(***************************************************************************)
(* HacherScan risk scoring engine: the typed-snapshot pipeline             *)
(* (src/app/scoring.py and its collaborators under src/app/services) and   *)
(* the scan endpoint (src/main.py).                                        *)
(*                                                                         *)
(* Conventions of the model                                                *)
(*  - Optional[T]: None is the empty tuple, a present value v is <<v>>.    *)
(*  - str: a sequence of one-character strings, so that lower() and the    *)
(*    substring test `in` are computed character by character.             *)
(*  - Sub-scores are sums of integer deltas, so they are integers. Weights *)
(*    0.4 / 0.25 / 0.15 / 0.2 are kept in hundredths (40, 25, 15, 20).     *)
(*    The global score is the exact rational [num, den] (in score units    *)
(*    num/den); comparisons are made by cross-multiplication.              *)
(*  - A reason is a tuple of strings: a tag standing for the French        *)
(*    sentence, followed by the names the sentence interpolates.           *)
(***************************************************************************)
EXTENDS Integers, Sequences, FiniteSets, TLC

VARIABLES
    pc,         \* position of the scan request (see ScanToken .. ReputationStep)
    api_key,    \* os.getenv("ETHERSCAN_API_KEY")
    request,    \* ScanRequest.chain as received
    chain_enum, \* Chain(request.chain.lower()), None before validation
    snapshot,   \* DataAggregator.build_token_snapshot's dict
    calls,      \* fetches started by this scan, in order
    components, \* compute_risk_score's list of RiskComponent
    global_score, \* compute_risk_score's global_score, None until computed
    result,     \* the RiskResult, None until computed
    exception,  \* the exception leaving scan_token, None if there is none
    response    \* HTTP status returned to the caller, 0 while pending

vars == <<pc, api_key, request, chain_enum, snapshot, calls, components, global_score, result,
          exception, response>>

-----------------------------------------------------------------------------
(* Optional values *)

None == <<>>

Some(v) == <<v>>

Get(o) == o[1]

Opt(S) == {None} \cup {Some(v) : v \in S}

-----------------------------------------------------------------------------
(* Strings *)

UpperChars == <<"A","B","C","D","E","F","G","H","I","J","K","L","M","N","O","P","Q","R","S","T","U","V","W","X","Y","Z">>

LowerChars == <<"a","b","c","d","e","f","g","h","i","j","k","l","m","n","o","p","q","r","s","t","u","v","w","x","y","z">>

LowerChar(c) ==
    IF \E i \in 1..Len(UpperChars) : UpperChars[i] = c
    THEN LowerChars[CHOOSE i \in 1..Len(UpperChars) : UpperChars[i] = c]
    ELSE c

\* str.lower()
Lower(s) == [i \in 1..Len(s) |-> LowerChar(s[i])]

\* `kw in s` for a non-empty kw
Contains(s, kw) ==
    \E i \in 1..(Len(s) - Len(kw) + 1) : SubSeq(s, i, i + Len(kw) - 1) = kw

\* Python truthiness of an Optional[str]: None and "" are falsy
Truthy(o) == o # None /\ Get(o) # <<>>

\* `a or b` on Optional[str]
OrElse(a, b) == IF Truthy(a) THEN a ELSE b

-----------------------------------------------------------------------------
(* Data model: src/app/services/*.py and DataAggregator's snapshot *)

\* ReputationLinks; also the four link fields other records carry
ReputationLinks(w, t, d, g) == [website |-> w, twitter |-> t, discord |-> d, github |-> g]

NoLinks == ReputationLinks(None, None, None, None)

\* The "result" of an Etherscan JSON response: a list (kind "list", its
\* items), a dict (kind "dict", items = <<the dict>>) or anything else,
\* such as an error string (kind "other", no items).
JsonResult(kind, items) == [kind |-> kind, items |-> items]

\* the keys of a getsourcecode object that the code reads
SourceObject(code, contract_name, links) ==
    [SourceCode |-> code, ContractName |-> contract_name,
     Website |-> links.website, Twitter |-> links.twitter,
     Discord |-> links.discord, Github |-> links.github]

\* total_supply_normalized = float(raw) / 10 ** decimals, kept as the pair
SupplyValue(raw, decimals) == [raw |-> raw, decimals |-> decimals]

OnchainTokenData(n, v, s, h, links, raw) ==
    [name |-> n, is_contract_verified |-> v, total_supply_normalized |-> s,
     holders_count |-> h, raw_source_code_response |-> raw,
     website |-> links.website, twitter |-> links.twitter,
     discord |-> links.discord, github |-> links.github]

MarketPoolSummary(liq, vol, change, fdv) ==
    [liquidity_usd |-> liq, volume_24h_usd |-> vol,
     price_change_24h |-> change, fdv_usd |-> fdv]

MarketTokenData(pool, pairs) == [best_pool |-> pool, raw_pairs |-> pairs]

\* build_token_snapshot's dict; errors holds the '*_error' keys present
Snapshot(o, m, r, e) == [onchain |-> o, market |-> m, reputation |-> r, errors |-> e]

-----------------------------------------------------------------------------
(* src/app/scoring.py: helpers *)

\* mutant: the clamp is forgotten
Mut_clip_score_identity(score) == score

_clip_score(score) ==
    IF score < 0 THEN 0 ELSE IF score > 100 THEN 100 ELSE score

\* _clip_score on the rational weighted_sum / weight_total (den > 0)
ClipRatio(num, den) ==
    IF num < 0 THEN [num |-> 0, den |-> 1]
    ELSE IF num > 100 * den THEN [num |-> 100, den |-> 1]
    ELSE [num |-> num, den |-> den]

\* mutant: the tests are `<=`, so a threshold falls in the lower bracket
Mut_label_from_score_inclusive(score) ==
    IF score.num <= 20 * score.den THEN "VERY_LOW"
    ELSE IF score.num <= 40 * score.den THEN "LOW"
    ELSE IF score.num <= 60 * score.den THEN "MEDIUM"
    ELSE IF score.num <= 80 * score.den THEN "HIGH"
    ELSE "CRITICAL"

_label_from_score(score) ==
    IF score.num < 20 * score.den THEN "VERY_LOW"
    ELSE IF score.num < 40 * score.den THEN "LOW"
    ELSE IF score.num < 60 * score.den THEN "MEDIUM"
    ELSE IF score.num < 80 * score.den THEN "HIGH"
    ELSE "CRITICAL"

RiskComponent(n, s, w, r) == [name |-> n, score |-> s, weight |-> w, reasons |-> r]

-----------------------------------------------------------------------------
(* src/app/scoring.py: contract / on-chain component *)

\* mutant: an unknown verification status is taken as neutral
Mut_ContractVerification_unknown_neutral(onchain) ==
    IF onchain.is_contract_verified = Some(TRUE)
    THEN [delta |-> -10, reason |-> <<"contract_verified">>]
    ELSE IF onchain.is_contract_verified = Some(FALSE)
    THEN [delta |-> 25, reason |-> <<"contract_not_verified">>]
    ELSE [delta |-> 0, reason |-> <<"contract_not_verified">>]

\* mutant: a verified contract earns no bonus
Mut_ContractVerification_no_bonus(onchain) ==
    IF onchain.is_contract_verified = Some(TRUE)
    THEN [delta |-> 0, reason |-> <<"contract_verified">>]
    ELSE [delta |-> 25, reason |-> <<"contract_not_verified">>]

ContractVerification(onchain) ==
    IF onchain.is_contract_verified = Some(TRUE)
    THEN [delta |-> -10, reason |-> <<"contract_verified">>]
    ELSE [delta |-> 25, reason |-> <<"contract_not_verified">>]

ContractSupply(onchain) ==
    IF onchain.total_supply_normalized = None
    THEN [delta |-> 10, reason |-> <<"supply_unknown">>]
    ELSE [delta |-> 0, reason |-> <<"supply_detected">>]

ContractHolders(onchain) ==
    IF onchain.holders_count # None
    THEN IF Get(onchain.holders_count) < 100
         THEN [delta |-> 30, reason |-> <<"holders_lt_100">>]
         ELSE IF Get(onchain.holders_count) < 1000
         THEN [delta |-> 15, reason |-> <<"holders_lt_1000">>]
         ELSE [delta |-> -5, reason |-> <<"holders_significant">>]
    ELSE [delta |-> 5, reason |-> <<"holders_unknown">>]

\* mutant: the fallback keeps the former weight 0.5
Mut_score_contract_risk_old_weight(onchain) ==
    IF onchain = None
    THEN RiskComponent("Risque contrat on-chain", _clip_score(80), 50,
                       << <<"onchain_unavailable">> >>)
    ELSE LET o == Get(onchain)
             v == ContractVerification(o)
             s == ContractSupply(o)
             h == ContractHolders(o)
         IN  RiskComponent("Risque contrat on-chain",
                           _clip_score(20 + v.delta + s.delta + h.delta), 40,
                           <<v.reason, s.reason, h.reason>>)

_score_contract_risk(onchain) ==
    IF onchain = None
    THEN RiskComponent("Risque contrat on-chain", _clip_score(80), 40,
                       << <<"onchain_unavailable">> >>)
    ELSE LET o == Get(onchain)
             v == ContractVerification(o)
             s == ContractSupply(o)
             h == ContractHolders(o)
         IN  RiskComponent("Risque contrat on-chain",
                           _clip_score(20 + v.delta + s.delta + h.delta), 40,
                           <<v.reason, s.reason, h.reason>>)

-----------------------------------------------------------------------------
(* src/app/scoring.py: market / liquidity component *)

\* abs()
Abs(x) == IF x < 0 THEN -x ELSE x

\* Each step of the market scorer yields the delta added to the running score
\* and the reasons appended (an empty sequence where the code appends none).

\* mutant: the lowest liquidity tier gets the delta of the 100k-500k tier
Mut_MarketLiquidity_low_tier(pool) ==
    IF pool.liquidity_usd = None
    THEN [delta |-> 20, reasons |-> << <<"liquidity_unknown">> >>]
    ELSE LET liq == Get(pool.liquidity_usd)
         IN  IF liq < 20000 THEN [delta |-> 10, reasons |-> << <<"liquidity_lt_20k">> >>]
             ELSE IF liq < 100000 THEN [delta |-> 20, reasons |-> << <<"liquidity_20k_100k">> >>]
             ELSE IF liq < 500000 THEN [delta |-> 10, reasons |-> << <<"liquidity_100k_500k">> >>]
             ELSE IF liq < 5000000 THEN [delta |-> 0, reasons |-> << <<"liquidity_gt_500k">> >>]
             ELSE [delta |-> -10, reasons |-> << <<"liquidity_very_high">> >>]

MarketLiquidity(pool) ==
    IF pool.liquidity_usd = None
    THEN [delta |-> 20, reasons |-> << <<"liquidity_unknown">> >>]
    ELSE LET liq == Get(pool.liquidity_usd)
         IN  IF liq < 20000 THEN [delta |-> 35, reasons |-> << <<"liquidity_lt_20k">> >>]
             ELSE IF liq < 100000 THEN [delta |-> 20, reasons |-> << <<"liquidity_20k_100k">> >>]
             ELSE IF liq < 500000 THEN [delta |-> 10, reasons |-> << <<"liquidity_100k_500k">> >>]
             ELSE IF liq < 5000000 THEN [delta |-> 0, reasons |-> << <<"liquidity_gt_500k">> >>]
             ELSE [delta |-> -10, reasons |-> << <<"liquidity_very_high">> >>]

MarketVolume(pool) ==
    IF pool.volume_24h_usd = None
    THEN [delta |-> 10, reasons |-> << <<"volume_unknown">> >>]
    ELSE LET vol == Get(pool.volume_24h_usd)
         IN  IF vol < 10000 THEN [delta |-> 25, reasons |-> << <<"volume_lt_10k">> >>]
             ELSE IF vol < 100000 THEN [delta |-> 10, reasons |-> << <<"volume_10k_100k">> >>]
             ELSE IF vol > 1000000 THEN [delta |-> -10, reasons |-> << <<"volume_gt_1m">> >>]
             ELSE [delta |-> 0, reasons |-> <<>>]

MarketVolatility(pool) ==
    IF pool.price_change_24h # None
    THEN LET change == Get(pool.price_change_24h)
         IN  IF Abs(change) > 40 THEN [delta |-> 15, reasons |-> << <<"change_very_strong">> >>]
             ELSE IF Abs(change) > 20 THEN [delta |-> 5, reasons |-> << <<"change_significant">> >>]
             ELSE IF Abs(change) < 5 THEN [delta |-> -5, reasons |-> << <<"price_stable">> >>]
             ELSE [delta |-> 0, reasons |-> <<>>]
    ELSE [delta |-> 0, reasons |-> <<>>]

\* ratio = fdv_usd / liquidity_usd with liquidity_usd > 0:
\* ratio > 100 iff fdv > 100 * liq, ratio < 10 iff fdv < 10 * liq.
MarketFdvRatio(pool) ==
    IF pool.fdv_usd # None /\ pool.liquidity_usd # None /\ Get(pool.liquidity_usd) > 0
    THEN LET fdv == Get(pool.fdv_usd)
             liq == Get(pool.liquidity_usd)
         IN  IF fdv > 100 * liq THEN [delta |-> 10, reasons |-> << <<"fdv_ratio_very_high">> >>]
             ELSE IF fdv < 10 * liq THEN [delta |-> -5, reasons |-> << <<"fdv_ratio_reasonable">> >>]
             ELSE [delta |-> 0, reasons |-> <<>>]
    ELSE [delta |-> 0, reasons |-> <<>>]

\* mutant: the fallback keeps the former weight 0.3
Mut_score_market_risk_old_weight(market) ==
    IF market = None \/ Get(market).best_pool = None
    THEN RiskComponent("Risque marche & liquidite", _clip_score(75), 30,
                       << <<"no_dex_pool">> >>)
    ELSE LET pool == Get(Get(market).best_pool)
             l == MarketLiquidity(pool)
             v == MarketVolume(pool)
             c == MarketVolatility(pool)
             r == MarketFdvRatio(pool)
         IN  RiskComponent("Risque marche & liquidite",
                           _clip_score(40 + l.delta + v.delta + c.delta + r.delta), 25,
                           l.reasons \o v.reasons \o c.reasons \o r.reasons)

\* mutant: the score is clamped after every step
Mut_score_market_risk_clip_each_step(market) ==
    IF market = None \/ Get(market).best_pool = None
    THEN RiskComponent("Risque marche & liquidite", _clip_score(75), 25,
                       << <<"no_dex_pool">> >>)
    ELSE LET pool == Get(Get(market).best_pool)
             l == MarketLiquidity(pool)
             v == MarketVolume(pool)
             c == MarketVolatility(pool)
             r == MarketFdvRatio(pool)
         IN  RiskComponent("Risque marche & liquidite",
                           _clip_score(_clip_score(_clip_score(_clip_score(40 + l.delta)
                                                               + v.delta) + c.delta) + r.delta),
                           25,
                           l.reasons \o v.reasons \o c.reasons \o r.reasons)

_score_market_risk(market) ==
    IF market = None \/ Get(market).best_pool = None
    THEN RiskComponent("Risque marche & liquidite", _clip_score(75), 25,
                       << <<"no_dex_pool">> >>)
    ELSE LET pool == Get(Get(market).best_pool)
             l == MarketLiquidity(pool)
             v == MarketVolume(pool)
             c == MarketVolatility(pool)
             r == MarketFdvRatio(pool)
         IN  RiskComponent("Risque marche & liquidite",
                           _clip_score(40 + l.delta + v.delta + c.delta + r.delta), 25,
                           l.reasons \o v.reasons \o c.reasons \o r.reasons)

-----------------------------------------------------------------------------
(* src/app/scoring.py: reputation component *)

\* link_values, in the dict's insertion order
LinkValues(links) ==
    << <<"Site web", links.website>>, <<"Twitter / X", links.twitter>>,
       <<"Discord", links.discord>>, <<"Github", links.github>> >>

RECURSIVE Mut_LinkNames_none_only(_, _)
\* mutant: only None counts as a missing link, "" counts as present
Mut_LinkNames_none_only(lv, wanted) ==
    IF lv = <<>> THEN <<>>
    ELSE (IF (lv[1][2] # None) = wanted THEN <<lv[1][1]>> ELSE <<>>)
         \o Mut_LinkNames_none_only(Tail(lv), wanted)

RECURSIVE LinkNames(_, _)
\* [name for name, url in link_values.items() if bool(url) = wanted]
LinkNames(lv, wanted) ==
    IF lv = <<>> THEN <<>>
    ELSE (IF Truthy(lv[1][2]) = wanted THEN <<lv[1][1]>> ELSE <<>>)
         \o LinkNames(Tail(lv), wanted)

_score_reputation_risk(links) ==
    IF links = None
    THEN RiskComponent("Risque reputation (liens officiels)", _clip_score(80), 15,
                       << <<"links_unavailable">> >>)
    ELSE LET present == LinkNames(LinkValues(Get(links)), TRUE)
             missing == LinkNames(LinkValues(Get(links)), FALSE)
             nb_links == Len(present)
             score == IF nb_links = 0 THEN 85
                      ELSE IF nb_links = 1 THEN 70
                      ELSE IF nb_links = 2 THEN 50
                      ELSE IF nb_links = 3 THEN 35
                      ELSE 20
             first == IF nb_links = 0 THEN <<"no_official_link">>
                      ELSE IF nb_links = 1 THEN <<"single_link", present[1]>>
                      ELSE IF nb_links = 2 THEN <<"two_links">> \o present
                      ELSE IF nb_links = 3 THEN <<"several_links">> \o present
                      ELSE <<"complete_presence">>
         IN  RiskComponent("Risque reputation (liens officiels)", _clip_score(score), 15,
                           <<first>>
                           \o (IF present # <<>> THEN << <<"links_found">> \o present >> ELSE <<>>)
                           \o (IF missing # <<>> THEN << <<"links_missing">> \o missing >> ELSE <<>>))

-----------------------------------------------------------------------------
(* src/app/services/risk_rules_advanced.py: advanced-pattern detector *)

K_proxy == <<"p","r","o","x","y">>
K_delegatecall == <<"d","e","l","e","g","a","t","e","c","a","l","l">>
K_transparentupgradeableproxy == <<"t","r","a","n","s","p","a","r","e","n","t","u","p","g","r","a","d","e","a","b","l","e","p","r","o","x","y">>
K_function_mint == <<"f","u","n","c","t","i","o","n"," ","m","i","n","t">>
K_mint_paren == <<"m","i","n","t","(">>
K_blacklist == <<"b","l","a","c","k","l","i","s","t">>
K_blocklist == <<"b","l","o","c","k","l","i","s","t">>
K_isblacklisted == <<"i","s","b","l","a","c","k","l","i","s","t","e","d">>
K_pausable == <<"p","a","u","s","a","b","l","e">>
K_whennotpaused == <<"w","h","e","n","n","o","t","p","a","u","s","e","d">>
K_pause_call == <<"p","a","u","s","e","(",")">>
K_onlyowner == <<"o","n","l","y","o","w","n","e","r">>
K_ownable == <<"o","w","n","a","b","l","e">>
K_cooldown == <<"c","o","o","l","d","o","w","n">>
K_maxtransactionamount == <<"m","a","x","t","r","a","n","s","a","c","t","i","o","n","a","m","o","u","n","t">>

tax_keywords ==
    << <<"t","a","x","f","e","e">>,
       <<"l","i","q","u","i","d","i","t","y","f","e","e">>,
       <<"m","a","r","k","e","t","i","n","g","f","e","e">>,
       <<"b","u","y","t","a","x">>,
       <<"s","e","l","l","t","a","x">>,
       <<"f","e","e","p","e","r","c","e","n","t">>,
       <<"t","o","t","a","l","f","e","e","s">> >>

\* mutant: the mint rule's severity is raised to "critical"
Mut_AdvancedRiskFlag_high_as_critical(n, s) ==
    [name |-> n, severity |-> IF s = "high" THEN "critical" ELSE s]

AdvancedRiskFlag(n, s) == [name |-> n, severity |-> s]

\* raw_source_code_response is None or a dict whose "result" is a list
\* (kind "list", its items), a dict (kind "dict", items = <<the dict>>) or
\* anything else (kind "other").
\* mutant: a `result` that is a dict is not read
Mut_extract_source_code_list_only(onchain) ==
    IF onchain.raw_source_code_response = None THEN <<>>
    ELSE LET res == Get(onchain.raw_source_code_response).result
         IN  IF res.kind = "list" /\ res.items # <<>>
             THEN IF Truthy(res.items[1].SourceCode) THEN Get(res.items[1].SourceCode) ELSE <<>>
             ELSE <<>>

_extract_source_code(onchain) ==
    IF onchain.raw_source_code_response = None THEN <<>>
    ELSE LET res == Get(onchain.raw_source_code_response).result
         IN  IF res.kind = "list" /\ res.items # <<>>
             THEN IF Truthy(res.items[1].SourceCode) THEN Get(res.items[1].SourceCode) ELSE <<>>
             ELSE IF res.kind = "dict"
             THEN IF Truthy(res.items[1].SourceCode) THEN Get(res.items[1].SourceCode) ELSE <<>>
             ELSE <<>>

\* mutant: the `if not source_code` guard is missing
Mut_analyze_advanced_risks_no_guard(onchain, market) ==
    IF onchain = None THEN <<>>
    ELSE LET source_code == _extract_source_code(Get(onchain))
         IN  IF FALSE THEN <<>>
             ELSE LET code_lower == Lower(source_code)
                      contract_name_lower ==
                          Lower(IF Truthy(Get(onchain).name) THEN Get(Get(onchain).name) ELSE <<>>)
                  IN  (IF \/ Contains(contract_name_lower, K_proxy)
                          \/ Contains(code_lower, K_proxy)
                          \/ Contains(code_lower, K_delegatecall)
                          \/ Contains(code_lower, K_transparentupgradeableproxy)
                       THEN <<AdvancedRiskFlag("Contrat proxy / upgradable", "medium")>>
                       ELSE <<>>)
                   \o (IF Contains(code_lower, K_function_mint) \/ Contains(code_lower, K_mint_paren)
                       THEN <<AdvancedRiskFlag("Fonction de mint detectee", "high")>>
                       ELSE <<>>)
                   \o (IF \/ Contains(code_lower, K_blacklist)
                          \/ Contains(code_lower, K_blocklist)
                          \/ Contains(code_lower, K_isblacklisted)
                       THEN <<AdvancedRiskFlag("Mecanisme de blacklist", "medium")>>
                       ELSE <<>>)
                   \o (IF \/ Contains(code_lower, K_pausable)
                          \/ Contains(code_lower, K_whennotpaused)
                          \/ Contains(code_lower, K_pause_call)
                       THEN <<AdvancedRiskFlag("Contrat pausable / trading lock potentiel", "medium")>>
                       ELSE <<>>)
                   \o (IF \E k \in 1..Len(tax_keywords) : Contains(code_lower, tax_keywords[k])
                       THEN <<AdvancedRiskFlag("Taxes sur les transferts", "medium")>>
                       ELSE <<>>)
                   \o (IF Contains(code_lower, K_onlyowner) \/ Contains(code_lower, K_ownable)
                       THEN <<AdvancedRiskFlag("Controle proprietaire (Ownable)", "low")>>
                       ELSE <<>>)
                   \o (IF Contains(code_lower, K_cooldown) \/ Contains(code_lower, K_maxtransactionamount)
                       THEN <<AdvancedRiskFlag("Limites de trading / anti-bot", "low")>>
                       ELSE <<>>)

\* mutant: the blacklist rule is an `elif` of the mint rule
Mut_analyze_advanced_risks_exclusive(onchain, market) ==
    IF onchain = None THEN <<>>
    ELSE LET source_code == _extract_source_code(Get(onchain))
         IN  IF source_code = <<>> THEN <<>>
             ELSE LET code_lower == Lower(source_code)
                      contract_name_lower ==
                          Lower(IF Truthy(Get(onchain).name) THEN Get(Get(onchain).name) ELSE <<>>)
                  IN  (IF \/ Contains(contract_name_lower, K_proxy)
                          \/ Contains(code_lower, K_proxy)
                          \/ Contains(code_lower, K_delegatecall)
                          \/ Contains(code_lower, K_transparentupgradeableproxy)
                       THEN <<AdvancedRiskFlag("Contrat proxy / upgradable", "medium")>>
                       ELSE <<>>)
                   \o (IF Contains(code_lower, K_function_mint) \/ Contains(code_lower, K_mint_paren)
                       THEN <<AdvancedRiskFlag("Fonction de mint detectee", "high")>>
                       ELSE <<>>)
                   \o (IF /\ ~(Contains(code_lower, K_function_mint) \/ Contains(code_lower, K_mint_paren))
                          /\ \/ Contains(code_lower, K_blacklist)
                             \/ Contains(code_lower, K_blocklist)
                             \/ Contains(code_lower, K_isblacklisted)
                       THEN <<AdvancedRiskFlag("Mecanisme de blacklist", "medium")>>
                       ELSE <<>>)
                   \o (IF \/ Contains(code_lower, K_pausable)
                          \/ Contains(code_lower, K_whennotpaused)
                          \/ Contains(code_lower, K_pause_call)
                       THEN <<AdvancedRiskFlag("Contrat pausable / trading lock potentiel", "medium")>>
                       ELSE <<>>)
                   \o (IF \E k \in 1..Len(tax_keywords) : Contains(code_lower, tax_keywords[k])
                       THEN <<AdvancedRiskFlag("Taxes sur les transferts", "medium")>>
                       ELSE <<>>)
                   \o (IF Contains(code_lower, K_onlyowner) \/ Contains(code_lower, K_ownable)
                       THEN <<AdvancedRiskFlag("Controle proprietaire (Ownable)", "low")>>
                       ELSE <<>>)
                   \o (IF Contains(code_lower, K_cooldown) \/ Contains(code_lower, K_maxtransactionamount)
                       THEN <<AdvancedRiskFlag("Limites de trading / anti-bot", "low")>>
                       ELSE <<>>)

analyze_advanced_risks(onchain, market) ==
    IF onchain = None THEN <<>>
    ELSE LET source_code == _extract_source_code(Get(onchain))
         IN  IF source_code = <<>> THEN <<>>
             ELSE LET code_lower == Lower(source_code)
                      contract_name_lower ==
                          Lower(IF Truthy(Get(onchain).name) THEN Get(Get(onchain).name) ELSE <<>>)
                  IN  (IF \/ Contains(contract_name_lower, K_proxy)
                          \/ Contains(code_lower, K_proxy)
                          \/ Contains(code_lower, K_delegatecall)
                          \/ Contains(code_lower, K_transparentupgradeableproxy)
                       THEN <<AdvancedRiskFlag("Contrat proxy / upgradable", "medium")>>
                       ELSE <<>>)
                   \o (IF Contains(code_lower, K_function_mint) \/ Contains(code_lower, K_mint_paren)
                       THEN <<AdvancedRiskFlag("Fonction de mint detectee", "high")>>
                       ELSE <<>>)
                   \o (IF \/ Contains(code_lower, K_blacklist)
                          \/ Contains(code_lower, K_blocklist)
                          \/ Contains(code_lower, K_isblacklisted)
                       THEN <<AdvancedRiskFlag("Mecanisme de blacklist", "medium")>>
                       ELSE <<>>)
                   \o (IF \/ Contains(code_lower, K_pausable)
                          \/ Contains(code_lower, K_whennotpaused)
                          \/ Contains(code_lower, K_pause_call)
                       THEN <<AdvancedRiskFlag("Contrat pausable / trading lock potentiel", "medium")>>
                       ELSE <<>>)
                   \o (IF \E k \in 1..Len(tax_keywords) : Contains(code_lower, tax_keywords[k])
                       THEN <<AdvancedRiskFlag("Taxes sur les transferts", "medium")>>
                       ELSE <<>>)
                   \o (IF Contains(code_lower, K_onlyowner) \/ Contains(code_lower, K_ownable)
                       THEN <<AdvancedRiskFlag("Controle proprietaire (Ownable)", "low")>>
                       ELSE <<>>)
                   \o (IF Contains(code_lower, K_cooldown) \/ Contains(code_lower, K_maxtransactionamount)
                       THEN <<AdvancedRiskFlag("Limites de trading / anti-bot", "low")>>
                       ELSE <<>>)

-----------------------------------------------------------------------------
(* src/app/scoring.py: advanced component *)

\* mutant: a high-severity flag is charged like a critical one
Mut_SeverityDelta_high_as_critical(severity) ==
    IF severity = "low" THEN 5
    ELSE IF severity = "medium" THEN 10
    ELSE IF severity = "high" THEN 30
    ELSE IF severity = "critical" THEN 30
    ELSE 0

SeverityDelta(severity) ==
    IF severity = "low" THEN 5
    ELSE IF severity = "medium" THEN 10
    ELSE IF severity = "high" THEN 20
    ELSE IF severity = "critical" THEN 30
    ELSE 0

RECURSIVE SumSeverity(_)
\* the loop `for flag in flags: score += ...`
SumSeverity(flags) ==
    IF flags = <<>> THEN 0
    ELSE SeverityDelta(flags[1].severity) + SumSeverity(Tail(flags))

_score_advanced_risks(onchain, market) ==
    IF onchain = None
    THEN RiskComponent("Risques avances du contrat", _clip_score(70), 20,
                       << <<"no_onchain_data">> >>)
    ELSE LET flags == analyze_advanced_risks(onchain, market)
         IN  IF flags = <<>>
             THEN RiskComponent("Risques avances du contrat", _clip_score(20), 20,
                                << <<"no_advanced_pattern">> >>)
             ELSE RiskComponent("Risques avances du contrat",
                                _clip_score(40 + SumSeverity(flags)), 20,
                                [i \in 1..Len(flags) |-> <<flags[i].name>>])

-----------------------------------------------------------------------------
(* src/app/scoring.py: global aggregation *)

RECURSIVE WeightedSum(_)
\* sum(c.score * c.weight for c in components), in hundredths
WeightedSum(comps) ==
    IF comps = <<>> THEN 0
    ELSE comps[1].score * comps[1].weight + WeightedSum(Tail(comps))

RECURSIVE WeightSum(_)
\* sum(c.weight for c in components), in hundredths
WeightSum(comps) ==
    IF comps = <<>> THEN 0
    ELSE comps[1].weight + WeightSum(Tail(comps))

\* mutant: the `or 1.0` default is forgotten
Mut_WeightTotal_no_default(comps) == WeightSum(comps)

\* sum(...) or 1.0
WeightTotal(comps) ==
    IF WeightSum(comps) = 0 THEN 100 ELSE WeightSum(comps)

\* global_score = _clip_score(weighted_sum / weight_total)
GlobalScore(comps) == ClipRatio(WeightedSum(comps), WeightTotal(comps))

\* the component list of a snapshot, in the order compute_risk_score builds it
Components(snap) ==
    << _score_contract_risk(snap.onchain),
       _score_market_risk(snap.market),
       _score_reputation_risk(snap.reputation),
       _score_advanced_risks(snap.onchain, snap.market) >>

\* the RiskResult compute_risk_score returns
RiskResult(comps, score, reputation_links) ==
    [global_score |-> score,
     label |-> _label_from_score(score),
     components |-> comps,
     reputation_links |-> reputation_links]

-----------------------------------------------------------------------------
(* Sample values of the facts *)

T_clean == <<"c","o","n","t","r","a","c","t"," ","T"," ","{","}">>
T_mint_owner == <<"f","u","n","c","t","i","o","n"," ","m","i","n","t","(",")"," ","o","n","l","y","O","w","n","e","r">>
T_all_rules == <<"P","r","o","x","y"," ","m","i","n","t","("," ","B","l","a","c","k","l","i","s","t"," ","p","a","u","s","e","(",")"," ","t","a","x","F","e","e"," ","O","w","n","a","b","l","e"," ","c","o","o","l","d","o","w","n">>
N_token == <<"T","o","k","e","n">>
U_link == <<"h","t","t","p","s",":","/","/","x">>

\* a getsourcecode response whose result lists one object with this source
RawSource(text) ==
    Some([result |-> JsonResult("list", <<SourceObject(Some(text), Some(N_token), NoLinks)>>)])

\* Whole snapshots: every combination of absent and present facets, with
\* field values that reach both ends of each scorer's range.
OnchainFacts ==
    Opt({ OnchainTokenData(Some(N_token), v, s, h, NoLinks, raw) :
            v \in Opt(BOOLEAN), s \in Opt({SupplyValue(1000000, 18)}), h \in Opt({50, 5000}),
            raw \in {None, RawSource(T_clean), RawSource(T_all_rules)} })

MarketFacts ==
    Opt({ MarketTokenData(None, <<>>) }
        \cup { MarketTokenData(Some(MarketPoolSummary(l, v, c, f)), <<>>) :
                 l \in Opt({2000, 6000000}), v \in Opt({5000, 2000000}),
                 c \in {Some(0), Some(50)}, f \in {Some(10000), Some(700000000)} })

ReputationFacts ==
    Opt({ ReputationLinks(w, t, d, g) :
            w \in Opt({U_link}), t \in Opt({U_link}),
            d \in Opt({U_link}), g \in Opt({U_link}) })

Snapshots ==
    { Snapshot(o, m, r, {}) : o \in OnchainFacts, m \in MarketFacts, r \in ReputationFacts }

\* Best pools on and around every threshold of the market scorer.
LiquidityValues ==
    {0, 2000, 19999, 20000, 99999, 100000, 200000, 499999, 500000, 4999999, 5000000}

VolumeValues == {9999, 10000, 99999, 100000, 1000000, 1000001}

ChangeValues == {-41, -40, -21, -20, -5, -4, 4, 5, 20, 21, 40, 41}

FdvValues ==
    {0, 19999, 20000, 200000, 200001, 1999999, 2000000, 20000000, 20000001,
     500000000, 500000001}

MarketSnapshots ==
    { Snapshot(None, Some(MarketTokenData(Some(MarketPoolSummary(l, v, c, f)), <<>>)), None, {}) :
        l \in Opt(LiquidityValues), v \in Opt(VolumeValues),
        c \in Opt(ChangeValues), f \in Opt(FdvValues) }

\* On-chain facts on and around every threshold of the contract scorer.
HolderValues == {0, 99, 100, 999, 1000, 5000}

ContractSnapshots ==
    { Snapshot(Some(OnchainTokenData(Some(N_token), v, s, h, NoLinks, raw)), None, None, {}) :
        v \in Opt(BOOLEAN), s \in Opt({SupplyValue(0, 18), SupplyValue(1000000, 0)}),
        h \in Opt(HolderValues),
        raw \in {None, RawSource(<<>>), RawSource(T_clean), RawSource(T_mint_owner)} }

-----------------------------------------------------------------------------
(* compute_risk_score applied to a given snapshot *)

ComputeRiskScore ==
    /\ pc = "snapshot"
    /\ components' = Components(snapshot)
    /\ global_score' = Some(GlobalScore(components'))
    /\ result' = Some(RiskResult(components', Get(global_score'), snapshot.reputation))
    /\ pc' = "done"
    /\ UNCHANGED <<api_key, exception, request, chain_enum, snapshot, calls, response>>

InitScoring(S) ==
    /\ pc = "snapshot"
    /\ snapshot \in S
    /\ request = None
    /\ chain_enum = None
    /\ calls = <<>>
    /\ components = <<>>
    /\ global_score = None
    /\ result = None
    /\ api_key = None
    /\ exception = None
    /\ response = 0

InitSnapshot == InitScoring(Snapshots)

SnapshotSpec == InitSnapshot /\ [][ComputeRiskScore]_vars

InitMarket == InitScoring(MarketSnapshots)

MarketSpec == InitMarket /\ [][ComputeRiskScore]_vars

InitContract == InitScoring(ContractSnapshots)

ContractSpec == InitContract /\ [][ComputeRiskScore]_vars

-----------------------------------------------------------------------------
(* The detector applied to source texts made of rule keywords *)

\* one source fragment per rule, in rule order, in two spellings
RuleFragments ==
    << << <<"d","e","l","e","g","a","t","e","C","a","l","l">>,
          <<"f","u","n","c","t","i","o","n"," ","m","i","n","t">>,
          <<"b","l","o","c","k","l","i","s","t">>,
          <<"P","a","u","s","a","b","l","e">>,
          <<"t","a","x","F","e","e">>,
          <<"o","n","l","y","O","w","n","e","r">>,
          <<"c","o","o","l","d","o","w","n">> >>,
       << <<"T","r","a","n","s","p","a","r","e","n","t","U","p","g","r","a","d","e","a","b","l","e","P","r","o","x","y">>,
          <<"_","m","i","n","t","(">>,
          <<"i","s","B","l","a","c","k","l","i","s","t","e","d">>,
          <<"p","a","u","s","e","(",")">>,
          <<"t","o","t","a","l","F","e","e","s">>,
          <<"O","w","n","a","b","l","e">>,
          <<"m","a","x","T","r","a","n","s","a","c","t","i","o","n","A","m","o","u","n","t">> >> >>

\* texts with a single keyword, or with a near miss of one
SingleTexts ==
    { <<"P","r","o","x","y">>,
      <<"b","l","a","c","k","l","i","s","t">>,
      <<"w","h","e","n","N","o","t","P","a","u","s","e","d">>,
      <<"l","i","q","u","i","d","i","t","y","F","e","e">>,
      <<"m","a","r","k","e","t","i","n","g","F","e","e">>,
      <<"b","u","y","T","a","x">>,
      <<"s","e","l","l","T","a","x">>,
      <<"f","e","e","P","e","r","c","e","n","t">>,
      <<"M","i","n","t"," ","(">>,
      <<"m","i","n","t","i","n","g">>,
      <<"p","a","u","s","e"," ","(",")">>,
      <<"o","w","n","e","r">> }

N_proxy_name == <<"M","y","P","r","o","x","y","T","o","k","e","n">>

Separator == <<";"," ">>

RECURSIVE JoinFragments(_, _, _)
\* the fragments of the rules in `rules`, from rule i on, in rule order
JoinFragments(fragments, rules, i) ==
    IF i > Len(fragments) THEN <<>>
    ELSE (IF i \in rules THEN fragments[i] \o Separator ELSE <<>>)
         \o JoinFragments(fragments, rules, i + 1)

RuleTexts ==
    { JoinFragments(RuleFragments[v], rules, 1) : v \in 1..2, rules \in SUBSET (1..7) }

SourceTexts == RuleTexts \cup SingleTexts

\* the getsourcecode response carrying the text: as a list, as a dict, with
\* an empty list, or none at all
RawSources ==
    {None, Some([result |-> JsonResult("list", <<>>)])}
    \cup { Some([result |-> JsonResult(kind, <<SourceObject(Some(text), None, NoLinks)>>)]) :
             kind \in {"list", "dict"}, text \in SourceTexts }

DetectorSnapshots ==
    { Snapshot(Some(OnchainTokenData(n, Some(TRUE), None, None, NoLinks, raw)), None, None, {}) :
        n \in {None, Some(N_token), Some(N_proxy_name)}, raw \in RawSources }
    \cup { Snapshot(None, None, None, {}) }

InitDetector == InitScoring(DetectorSnapshots)

DetectorSpec == InitDetector /\ [][ComputeRiskScore]_vars

-----------------------------------------------------------------------------
(* The reputation scorer applied to every combination of links *)

\* a link is missing, the empty string, or a URL
LinkStates == {None, Some(<<>>), Some(U_link)}

ReputationSnapshots ==
    { Snapshot(None, None, Some(ReputationLinks(w, t, d, g)), {}) :
        w \in LinkStates, t \in LinkStates, d \in LinkStates, g \in LinkStates }
    \cup { Snapshot(None, None, None, {}) }

InitReputation == InitScoring(ReputationSnapshots)

ReputationSpec == InitReputation /\ [][ComputeRiskScore]_vars

-----------------------------------------------------------------------------
(* The aggregation applied to a given component list *)

MaxComponents == 3

ComponentValues ==
    { RiskComponent("c", s, w, <<>>) : s \in {0, 50, 100}, w \in {0, 15, 25, 40} }

RECURSIVE ComponentLists(_)
ComponentLists(n) ==
    IF n = 0 THEN { <<>> }
    ELSE ComponentLists(n - 1)
         \cup { Append(l, c) : l \in { x \in ComponentLists(n - 1) : Len(x) = n - 1 },
                               c \in ComponentValues }

AggregateComponents ==
    /\ pc = "components"
    /\ global_score' = Some(GlobalScore(components))
    /\ result' = Some(RiskResult(components, Get(global_score'), None))
    /\ pc' = "done"
    /\ UNCHANGED <<api_key, exception, request, chain_enum, snapshot, calls, components, response>>

InitAggregate ==
    /\ pc = "components"
    /\ components \in ComponentLists(MaxComponents)
    /\ snapshot = Snapshot(None, None, None, {})
    /\ request = None
    /\ chain_enum = None
    /\ calls = <<>>
    /\ global_score = None
    /\ result = None
    /\ api_key = None
    /\ exception = None
    /\ response = 0

AggregateSpec == InitAggregate /\ [][AggregateComponents]_vars

-----------------------------------------------------------------------------
(* The label of a given global score *)

\* scores from -5.00 to 105.00 in steps of 0.01
ScoreValues == { [num |-> n, den |-> 100] : n \in -500..10500 }

LabelFromScore ==
    /\ pc = "global_score"
    /\ result' = Some(RiskResult(components, Get(global_score), None))
    /\ pc' = "done"
    /\ UNCHANGED <<api_key, exception, request, chain_enum, snapshot, calls, components, global_score, response>>

InitLabel ==
    /\ pc = "global_score"
    /\ global_score \in { Some(s) : s \in ScoreValues }
    /\ components = <<>>
    /\ snapshot = Snapshot(None, None, None, {})
    /\ request = None
    /\ chain_enum = None
    /\ calls = <<>>
    /\ result = None
    /\ api_key = None
    /\ exception = None
    /\ response = 0

LabelSpec == InitLabel /\ [][LabelFromScore]_vars

-----------------------------------------------------------------------------
(* Calls that may raise: the outcome of a call is what it returns or the  *)
(* class of the exception it raises                                       *)

Return(v) == [raised |-> "", value |-> Some(v)]

Raise(exc) == [raised |-> exc, value |-> None]

Raised(outcome) == outcome.raised # ""

Value(outcome) == Get(outcome.value)

-----------------------------------------------------------------------------
(* src/app/services/onchain_fetcher.py *)

S_ethereum == <<"e","t","h","e","r","e","u","m">>
S_bsc == <<"b","s","c">>
S_base == <<"b","a","s","e">>

\* Chain(value): the member with that value, or ValueError
Chain(value) ==
    IF value = S_ethereum THEN Return("ETHEREUM")
    ELSE IF value = S_bsc THEN Return("BSC")
    ELSE IF value = S_base THEN Return("BASE")
    ELSE Raise("ValueError")

CHAIN_ID_MAP(chain) ==
    CASE chain = "ETHEREUM" -> 1
      [] chain = "BSC" -> 56
      [] chain = "BASE" -> 8453

\* A JSON scalar as the fetchers read it: text that int() / float() parse
\* to v (numeric) or reject with ValueError (not numeric)
Scalar(numeric, v) == [numeric |-> numeric, v |-> v]

\* The HTTP exchange with Etherscan: the transport fails (httpx raises), or
\* a response arrives with a status code and a body; body None is a body
\* that is not JSON, otherwise the `status`, `message` and `result` keys of
\* the JSON object (None when the key is missing).
EtherscanReply(transport_ok, status_code, body) ==
    [transport_ok |-> transport_ok, status_code |-> status_code, body |-> body]

EtherscanBody(status, message, res) == [status |-> status, message |-> message, result |-> res]

\* the keys of a tokeninfo object that the code reads
TokenInfoObject(token_name, divisor, holder_count, links) ==
    [tokenName |-> token_name, divisor |-> divisor, tokenHolderCount |-> holder_count,
     website |-> links.website, twitter |-> links.twitter,
     discord |-> links.discord, github |-> links.github]

_get_api_key(key) ==
    IF ~Truthy(key) THEN Raise("OnchainFetcherError") ELSE Return(Get(key))

_build_params(key, chain, module, action) ==
    LET k == _get_api_key(key)
    IN  IF Raised(k) THEN k
        ELSE Return([apikey |-> Value(k), chainid |-> CHAIN_ID_MAP(chain),
                     module |-> module, action |-> action])

\* status is "'1'" for the string "1" and "1" for the number 1
_call_etherscan(reply) ==
    IF ~reply.transport_ok THEN Raise("TimeoutException")
    ELSE IF reply.status_code # 200 THEN Raise("OnchainFetcherError")
    ELSE IF reply.body = None THEN Raise("JSONDecodeError")
    ELSE LET data == Get(reply.body)
         IN  IF /\ data.status \notin {Some("'1'"), Some("1"), None}
                /\ data.message \notin {Some("OK"), None}
             THEN Raise("OnchainFetcherError")
             ELSE Return(data)

_fetch_source_code(key, chain, reply) ==
    LET params == _build_params(key, chain, "contract", "getsourcecode")
    IN  IF Raised(params) THEN params ELSE _call_etherscan(reply)

_fetch_token_supply(key, chain, reply) ==
    LET params == _build_params(key, chain, "stats", "tokensupply")
    IN  IF Raised(params) THEN params ELSE _call_etherscan(reply)

_fetch_token_info(key, chain, reply) ==
    LET params == _build_params(key, chain, "token", "tokeninfo")
    IN  IF Raised(params) THEN params ELSE _call_etherscan(reply)

\* onchain_fetcher._safe_int
_safe_int(value) ==
    IF value = None THEN None
    ELSE IF Get(value).numeric THEN Some(Get(value).v) ELSE None

\* onchain_fetcher._safe_float(value, decimals)
_safe_float_decimals(value, decimals) ==
    IF value = None \/ decimals = None THEN None
    ELSE IF Get(value).numeric THEN Some(SupplyValue(Get(value).v, Get(decimals))) ELSE None

\* `source_obj` / `token_info`: the first item of a non-empty list, the dict
\* itself, or {} (every key missing)
FirstObject(res, empty) ==
    IF res.kind = "list" /\ res.items # <<>> THEN res.items[1]
    ELSE IF res.kind = "dict" THEN res.items[1]
    ELSE empty

EmptySourceObject == SourceObject(None, None, NoLinks)

EmptyTokenInfo == TokenInfoObject(None, None, None, NoLinks)

\* the supply response's result is a scalar: kind "other" with the scalar as
\* its only item, or no item for null
SupplyRaw(res) == IF res.kind = "other" /\ res.items # <<>> THEN Some(res.items[1]) ELSE None

fetch_token_onchain_data(key, chain, source_reply, supply_reply, info_reply) ==
    LET source_resp == _fetch_source_code(key, chain, source_reply)
        supply_resp == _fetch_token_supply(key, chain, supply_reply)
        token_info_resp == _fetch_token_info(key, chain, info_reply)
    IN  IF Raised(source_resp) THEN source_resp
        ELSE IF Raised(supply_resp) THEN supply_resp
        ELSE IF Raised(token_info_resp) /\ token_info_resp.raised # "OnchainFetcherError"
        THEN token_info_resp
        ELSE LET source_obj == FirstObject(Value(source_resp).result, EmptySourceObject)
                 is_verified == Truthy(source_obj.SourceCode)
                 total_supply_raw == SupplyRaw(Value(supply_resp).result)
                 has_info == ~Raised(token_info_resp)
                 token_info ==
                     IF has_info THEN FirstObject(Value(token_info_resp).result, EmptyTokenInfo)
                     ELSE EmptyTokenInfo
                 source_name == OrElse(source_obj.ContractName, None)
                 name ==
                     IF ~Truthy(source_name) /\ has_info
                     THEN OrElse(token_info.tokenName, None) ELSE source_name
                 decimals == IF has_info THEN _safe_int(token_info.divisor) ELSE None
                 holders_count == IF has_info THEN _safe_int(token_info.tokenHolderCount) ELSE None
                 Link(from_source, from_info) ==
                     IF ~Truthy(from_source) /\ has_info THEN OrElse(from_info, None)
                     ELSE from_source
                 links ==
                     ReputationLinks(Link(source_obj.Website, token_info.website),
                                     Link(source_obj.Twitter, token_info.twitter),
                                     Link(source_obj.Discord, token_info.discord),
                                     Link(OrElse(source_obj.Github, None), token_info.github))
             IN  Return(OnchainTokenData(name, Some(is_verified),
                                         _safe_float_decimals(total_supply_raw, decimals),
                                         holders_count, links, source_resp.value))

-----------------------------------------------------------------------------
(* src/app/services/market_fetcher.py *)

\* The value under a key whose value the code expects to be a dict holding
\* one number ("liquidity" -> "usd", "volume" -> "h24", "priceChange" ->
\* "h24"): the key is missing, it is null, or it is a dict with that number
\* (None when the inner key is missing).
Nested(kind, inner) == [kind |-> kind, inner |-> inner]

\* the keys of a DexScreener pair that the code reads
Pair(chain_id, liquidity, volume, price_change, fdv, base_token) ==
    [chainId |-> chain_id, liquidity |-> liquidity, volume |-> volume,
     priceChange |-> price_change, fdv |-> fdv, baseToken |-> base_token]

\* The HTTP exchange with DexScreener; body None is a body that is not
\* JSON, otherwise the `pairs` key of the JSON object (None when missing or
\* null).
DexReply(transport_ok, status_code, body) ==
    [transport_ok |-> transport_ok, status_code |-> status_code, body |-> body]

DexBody(pairs) == [pairs |-> pairs]

_map_chain_to_dexscreener(chain) ==
    CASE chain = "ETHEREUM" -> Return("ethereum")
      [] chain = "BSC" -> Return("bsc")
      [] chain = "BASE" -> Return("base")
      [] OTHER -> Raise("MarketFetcherError")

\* market_fetcher._safe_float
_safe_float(value) ==
    IF value = None THEN None
    ELSE IF Get(value).numeric THEN Some(Get(value).v) ELSE None

_call_dexscreener(reply) ==
    IF ~reply.transport_ok THEN Raise("TimeoutException")
    ELSE IF reply.status_code # 200 THEN Raise("MarketFetcherError")
    ELSE IF reply.body = None THEN Raise("JSONDecodeError")
    ELSE Return(Get(reply.body))

\* pair.get(key, {}).get(inner): AttributeError when the value is null
GetNested(nested) ==
    IF nested.kind = "missing" THEN Return(None)
    ELSE IF nested.kind = "null" THEN Raise("AttributeError")
    ELSE Return(nested.inner)

\* The loop of _select_best_pool from pair i on; best is the index of
\* best_pair (0 for None). Returns the index reached at the end of the loop
\* and best_liquidity, or raises.
RECURSIVE BestPairLoop(_, _, _, _, _)
BestPairLoop(pairs, target_chain_id, i, best, best_liquidity) ==
    IF i > Len(pairs) THEN Return([best_pair |-> best, best_liquidity |-> best_liquidity])
    ELSE IF pairs[i].chainId # target_chain_id
    THEN BestPairLoop(pairs, target_chain_id, i + 1, best, best_liquidity)
    ELSE LET liquidity == GetNested(pairs[i].liquidity)
         IN  IF Raised(liquidity) THEN liquidity
             ELSE LET liquidity_usd == _safe_float(Value(liquidity))
                  IN  IF liquidity_usd = None
                      THEN BestPairLoop(pairs, target_chain_id, i + 1, best, best_liquidity)
                      ELSE IF Get(liquidity_usd) > best_liquidity
                      THEN BestPairLoop(pairs, target_chain_id, i + 1, i, Get(liquidity_usd))
                      ELSE BestPairLoop(pairs, target_chain_id, i + 1, best, best_liquidity)

_select_best_pool(pairs, target_chain_id) ==
    LET loop == BestPairLoop(pairs, target_chain_id, 1, 0, -1)
    IN  IF Raised(loop) THEN loop
        ELSE IF Value(loop).best_pair = 0 THEN Return(None)
        ELSE LET best_pair == pairs[Value(loop).best_pair]
                 volume == GetNested(best_pair.volume)
                 price_change == GetNested(best_pair.priceChange)
             IN  IF Raised(volume) THEN volume
                 ELSE IF Raised(price_change) THEN price_change
                 ELSE Return(Some(MarketPoolSummary(Some(Value(loop).best_liquidity),
                                                    _safe_float(Value(volume)),
                                                    _safe_float(Value(price_change)),
                                                    _safe_float(best_pair.fdv))))

fetch_market_data(chain, reply) ==
    LET data == _call_dexscreener(reply)
    IN  IF Raised(data) THEN data
        ELSE LET pairs == IF Value(data).pairs = None THEN <<>> ELSE Get(Value(data).pairs)
             IN  IF pairs = <<>> THEN Return(MarketTokenData(None, <<>>))
                 ELSE LET target_chain_id == _map_chain_to_dexscreener(chain)
                          best_pool ==
                              IF Raised(target_chain_id) THEN target_chain_id
                              ELSE _select_best_pool(pairs, Value(target_chain_id))
                      IN  IF Raised(best_pool) THEN best_pool
                          ELSE Return(MarketTokenData(Value(best_pool), pairs))

-----------------------------------------------------------------------------
(* src/app/services/reputation_fetcher.py *)

\* choose(primary, fallback)
\* mutant: the DexScreener value wins over the explorer's
Mut_choose_fallback_first(primary, fallback) ==
    IF Truthy(fallback) THEN fallback ELSE primary

choose(primary, fallback) == IF Truthy(primary) THEN primary ELSE fallback

fetch_reputation_links(key, chain, source_reply, supply_reply, info_reply, dex_reply) ==
    LET onchain == fetch_token_onchain_data(key, chain, source_reply, supply_reply, info_reply)
        fetched == fetch_market_data(chain, dex_reply)
        market == IF Raised(fetched) THEN None ELSE fetched.value
        ds_links ==
            IF market # None /\ Get(market).raw_pairs # <<>>
            THEN LET token_info == Get(market).raw_pairs[1].baseToken
                 IN  IF token_info = None THEN NoLinks ELSE Get(token_info)
            ELSE NoLinks
    IN  IF Raised(onchain) THEN onchain
        ELSE Return(ReputationLinks(choose(Value(onchain).website, ds_links.website),
                                    choose(Value(onchain).twitter, ds_links.twitter),
                                    choose(Value(onchain).discord, ds_links.discord),
                                    choose(Value(onchain).github, ds_links.github)))

-----------------------------------------------------------------------------
(* Sample exchanges with the two providers *)

K_key == <<"k","e","y">>

ApiKeys == {None, Some(<<>>), Some(K_key)}

RequestChains ==
    { S_ethereum, <<"B","S","C">>, <<"B","a","s","e">>, <<"s","o","l","a","n","a">>, <<>> }

OkBody(res) == Some(EtherscanBody(Some("'1'"), Some("OK"), res))

\* status "0" with message "NOTOK": the error shape of Etherscan
NotOkReply == EtherscanReply(TRUE, 200, Some(EtherscanBody(Some("0"), Some("NOTOK"), JsonResult("other", <<>>))))

ExplorerLinks == ReputationLinks(Some(U_link), Some(<<>>), None, None)

SourceReplies ==
    { EtherscanReply(TRUE, 200, OkBody(JsonResult("list", <<SourceObject(Some(T_mint_owner), Some(N_token), ExplorerLinks)>>))),
      EtherscanReply(TRUE, 200, OkBody(JsonResult("list", <<SourceObject(Some(<<>>), Some(<<>>), NoLinks)>>))),
      EtherscanReply(TRUE, 200, OkBody(JsonResult("dict", <<SourceObject(Some(T_clean), None, NoLinks)>>))),
      EtherscanReply(TRUE, 200, Some(EtherscanBody(Some("0"), None, JsonResult("other", <<>>)))),
      NotOkReply,
      EtherscanReply(TRUE, 500, None),
      EtherscanReply(TRUE, 200, None),
      EtherscanReply(FALSE, 0, None) }

SupplyReplies ==
    { EtherscanReply(TRUE, 200, OkBody(JsonResult("other", <<Scalar(TRUE, 1000000)>>))),
      EtherscanReply(TRUE, 200, OkBody(JsonResult("other", <<Scalar(FALSE, 0)>>))),
      NotOkReply,
      EtherscanReply(FALSE, 0, None) }

InfoLinks == ReputationLinks(Some(U_link), Some(U_link), None, None)

InfoReplies ==
    { EtherscanReply(TRUE, 200, OkBody(JsonResult("list", <<TokenInfoObject(Some(N_token), Some(Scalar(TRUE, 18)), Some(Scalar(TRUE, 5000)), InfoLinks)>>))),
      EtherscanReply(TRUE, 200, OkBody(JsonResult("list", <<TokenInfoObject(None, Some(Scalar(TRUE, 18)), Some(Scalar(FALSE, 0)), NoLinks)>>))),
      NotOkReply,
      EtherscanReply(TRUE, 200, None) }

DexLinks == ReputationLinks(None, None, Some(U_link), None)

Amount(v) == Nested("dict", Some(Scalar(TRUE, v)))

P_eth_small == Pair("ethereum", Amount(2000), Amount(5000), Amount(50), Some(Scalar(TRUE, 700000000)), Some(DexLinks))

P_eth_large == Pair("ethereum", Amount(6000000), Amount(2000000), Amount(0), Some(Scalar(TRUE, 10000)), None)

P_bsc == Pair("bsc", Amount(200000), Nested("missing", None), Nested("dict", None), None, None)

P_base_unparsable == Pair("base", Nested("dict", Some(Scalar(FALSE, 0))), Amount(0), Amount(0), None, Some(DexLinks))

P_null_liquidity == Pair("ethereum", Nested("null", None), Amount(0), Amount(0), None, None)

P_null_volume == Pair("bsc", Amount(30000), Nested("null", None), Amount(0), None, None)

DexReplies ==
    { DexReply(TRUE, 200, Some(DexBody(Some(<<P_eth_small, P_eth_large>>)))),
      DexReply(TRUE, 200, Some(DexBody(Some(<<P_bsc, P_eth_small>>)))),
      DexReply(TRUE, 200, Some(DexBody(Some(<<P_base_unparsable>>)))),
      DexReply(TRUE, 200, Some(DexBody(Some(<<P_bsc, P_null_liquidity>>)))),
      DexReply(TRUE, 200, Some(DexBody(Some(<<P_null_volume>>)))),
      DexReply(TRUE, 200, Some(DexBody(None))),
      DexReply(TRUE, 429, None),
      DexReply(TRUE, 200, None),
      DexReply(FALSE, 0, None) }

-----------------------------------------------------------------------------
(* A scan request: scan_token, compute_risk_score and the three steps of   *)
(* DataAggregator.build_token_snapshot. Each action runs from one awaited  *)
(* fetch to the next.                                                      *)

Init ==
    /\ pc = "request"
    /\ api_key \in ApiKeys
    /\ request \in { Some(c) : c \in RequestChains }
    /\ chain_enum = None
    /\ snapshot = Snapshot(None, None, None, {})
    /\ calls = <<>>
    /\ components = <<>>
    /\ global_score = None
    /\ result = None
    /\ exception = None
    /\ response = 0

\* the next fetch of build_token_snapshot is started
Proceed(next) ==
    /\ pc' = next
    /\ calls' = Append(calls, next)
    /\ UNCHANGED <<components, global_score, result, exception, response>>

\* an exception leaves build_token_snapshot, compute_risk_score and
\* scan_token: the framework answers 500
Propagate(exc) ==
    /\ pc' = "raised"
    /\ exception' = Some(exc)
    /\ response' = 500
    /\ UNCHANGED <<snapshot, calls, components, global_score, result>>

ScanToken ==
    /\ pc = "request"
    /\ LET member == Chain(Lower(Get(request)))
       IN  IF Raised(member)
           THEN /\ pc' = "rejected"
                /\ exception' = Some("HTTPException")
                /\ response' = 400
                /\ UNCHANGED <<chain_enum, snapshot, calls>>
           ELSE /\ chain_enum' = Some(Value(member))
                /\ snapshot' = Snapshot(None, None, None, {})
                /\ pc' = "onchain"
                /\ calls' = <<"onchain">>
                /\ UNCHANGED <<exception, response>>
    /\ UNCHANGED <<api_key, request, components, global_score, result>>

\* mutant: a typed failure of the on-chain fetch is retried once
Mut_OnchainStep_retry ==
    /\ pc = "onchain"
    /\ \E source_reply \in SourceReplies, supply_reply \in SupplyReplies, info_reply \in InfoReplies :
         LET onchain == fetch_token_onchain_data(api_key, Get(chain_enum), source_reply,
                                                 supply_reply, info_reply)
         IN  IF ~Raised(onchain)
             THEN snapshot' = [snapshot EXCEPT !.onchain = onchain.value] /\ Proceed("market")
             ELSE IF onchain.raised = "OnchainFetcherError"
             THEN IF Len(calls) < 2
                  THEN UNCHANGED snapshot /\ Proceed("onchain")
                  ELSE /\ snapshot' = [snapshot EXCEPT !.errors = @ \cup {"onchain_error"}]
                       /\ Proceed("market")
             ELSE Propagate(onchain.raised)
    /\ UNCHANGED <<api_key, request, chain_enum>>

OnchainStep ==
    /\ pc = "onchain"
    /\ \E source_reply \in SourceReplies, supply_reply \in SupplyReplies, info_reply \in InfoReplies :
         LET onchain == fetch_token_onchain_data(api_key, Get(chain_enum), source_reply,
                                                 supply_reply, info_reply)
         IN  IF ~Raised(onchain)
             THEN snapshot' = [snapshot EXCEPT !.onchain = onchain.value] /\ Proceed("market")
             ELSE IF onchain.raised = "OnchainFetcherError"
             THEN /\ snapshot' = [snapshot EXCEPT !.errors = @ \cup {"onchain_error"}]
                  /\ Proceed("market")
             ELSE Propagate(onchain.raised)
    /\ UNCHANGED <<api_key, request, chain_enum>>

\* mutant: a typed failure of the market fetch records no market_error entry
Mut_MarketStep_no_error_entry ==
    /\ pc = "market"
    /\ \E dex_reply \in DexReplies :
         LET market == fetch_market_data(Get(chain_enum), dex_reply)
         IN  IF ~Raised(market)
             THEN snapshot' = [snapshot EXCEPT !.market = market.value] /\ Proceed("reputation")
             ELSE IF market.raised = "MarketFetcherError"
             THEN UNCHANGED snapshot /\ Proceed("reputation")
             ELSE Propagate(market.raised)
    /\ UNCHANGED <<api_key, request, chain_enum>>

MarketStep ==
    /\ pc = "market"
    /\ \E dex_reply \in DexReplies :
         LET market == fetch_market_data(Get(chain_enum), dex_reply)
         IN  IF ~Raised(market)
             THEN snapshot' = [snapshot EXCEPT !.market = market.value] /\ Proceed("reputation")
             ELSE IF market.raised = "MarketFetcherError"
             THEN /\ snapshot' = [snapshot EXCEPT !.errors = @ \cup {"market_error"}]
                  /\ Proceed("reputation")
             ELSE Propagate(market.raised)
    /\ UNCHANGED <<api_key, request, chain_enum>>

\* what fetch_reputation_links can return or raise for the sample exchanges
ReputationOutcomes(key, chain) ==
    { fetch_reputation_links(key, chain, source_reply, supply_reply, info_reply, dex_reply) :
        source_reply \in SourceReplies, supply_reply \in SupplyReplies,
        info_reply \in InfoReplies, dex_reply \in DexReplies }

ReputationStep ==
    /\ pc = "reputation"
    /\ \E reputation \in ReputationOutcomes(api_key, Get(chain_enum)) :
         snapshot' =
             IF Raised(reputation)
             THEN [snapshot EXCEPT !.errors = @ \cup {"reputation_error"}]
             ELSE [snapshot EXCEPT !.reputation = reputation.value]
    /\ components' = Components(snapshot')
    /\ global_score' = Some(GlobalScore(components'))
    /\ result' = Some(RiskResult(components', Get(global_score'), snapshot'.reputation))
    /\ pc' = "done"
    /\ response' = 200
    /\ UNCHANGED <<api_key, request, chain_enum, calls, exception>>

Next == ScanToken \/ OnchainStep \/ MarketStep \/ ReputationStep

Spec == Init /\ [][Next]_vars

-----------------------------------------------------------------------------
(* Concurrent scan requests. Every variable but api_key holds one value   *)
(* per request; snapshot holds one dict per DataAggregator call. A step   *)
(* of a request runs from one awaited fetch to the next, and the steps of *)
(* different requests interleave freely.                                  *)

NumRequests == 2

Requests == 1..NumRequests

\* mutant: build_token_snapshot keeps its dict in one place shared by all calls
Mut_SnapshotOf_shared(r) == 1

\* the dict build_token_snapshot creates for the call made by request r
SnapshotOf(r) == r

ConcurrentChains == { S_ethereum, <<"s","o","l","a","n","a">> }

VerifiedSourceReply ==
    EtherscanReply(TRUE, 200, OkBody(JsonResult("list", <<SourceObject(Some(T_mint_owner), Some(N_token), ExplorerLinks)>>)))

UnverifiedSourceReply ==
    EtherscanReply(TRUE, 200, OkBody(JsonResult("list", <<SourceObject(Some(<<>>), Some(<<>>), NoLinks)>>)))

TimeoutReply == EtherscanReply(FALSE, 0, None)

SupplyReply == EtherscanReply(TRUE, 200, OkBody(JsonResult("other", <<Scalar(TRUE, 1000000)>>)))

PoolsReply == DexReply(TRUE, 200, Some(DexBody(Some(<<P_eth_small, P_eth_large>>))))

\* outcomes of the three fetches for a few exchanges: a value, a typed
\* error and another exception each
ConcurrentOnchainOutcomes(key, chain) ==
    { fetch_token_onchain_data(key, chain, source_reply, SupplyReply, NotOkReply) :
        source_reply \in {VerifiedSourceReply, UnverifiedSourceReply, NotOkReply, TimeoutReply} }

ConcurrentMarketOutcomes(chain) ==
    { fetch_market_data(chain, dex_reply) :
        dex_reply \in {PoolsReply, DexReply(TRUE, 429, None), DexReply(FALSE, 0, None)} }

ConcurrentReputationOutcomes(key, chain) ==
    { fetch_reputation_links(key, chain, source_reply, SupplyReply, NotOkReply, dex_reply) :
        source_reply \in {VerifiedSourceReply, TimeoutReply},
        dex_reply \in {PoolsReply, DexReply(FALSE, 0, None)} }

\* build_token_snapshot's try/except around one fetch: the facet is stored,
\* or the '<facet>_error' key is recorded
AfterFetch(snap, facet, outcome) ==
    IF Raised(outcome)
    THEN [snap EXCEPT !.errors = @ \cup {facet \o "_error"}]
    ELSE [snap EXCEPT ![facet] = outcome.value]

\* the except clause around the fetch of a facet catches the exception
Caught(facet, exc) ==
    CASE facet = "onchain" -> exc = "OnchainFetcherError"
      [] facet = "market" -> exc = "MarketFetcherError"
      [] facet = "reputation" -> TRUE

InitConcurrent ==
    /\ api_key \in {None, Some(K_key)}
    /\ request \in [Requests -> { Some(c) : c \in ConcurrentChains }]
    /\ pc = [r \in Requests |-> "request"]
    /\ chain_enum = [r \in Requests |-> None]
    /\ snapshot = [r \in Requests |-> Snapshot(None, None, None, {})]
    /\ calls = [r \in Requests |-> <<>>]
    /\ components = [r \in Requests |-> <<>>]
    /\ global_score = [r \in Requests |-> None]
    /\ result = [r \in Requests |-> None]
    /\ exception = [r \in Requests |-> None]
    /\ response = [r \in Requests |-> 0]

ScanTokenOf(r) ==
    /\ pc[r] = "request"
    /\ LET member == Chain(Lower(Get(request[r])))
       IN  IF Raised(member)
           THEN /\ pc' = [pc EXCEPT ![r] = "rejected"]
                /\ exception' = [exception EXCEPT ![r] = Some("HTTPException")]
                /\ response' = [response EXCEPT ![r] = 400]
                /\ UNCHANGED <<chain_enum, snapshot>>
           ELSE /\ chain_enum' = [chain_enum EXCEPT ![r] = Some(Value(member))]
                /\ snapshot' = [snapshot EXCEPT ![SnapshotOf(r)] = Snapshot(None, None, None, {})]
                /\ pc' = [pc EXCEPT ![r] = "onchain"]
                /\ UNCHANGED <<exception, response>>
    /\ UNCHANGED <<api_key, request, calls, components, global_score, result>>

\* the awaited fetch of a facet returns or raises; the request goes on to
\* the next fetch, or the exception leaves scan_token
FetchStepOf(r, facet, outcome, next) ==
    /\ calls' = [calls EXCEPT ![r] = Append(@, [facet |-> facet, outcome |-> outcome])]
    /\ IF Raised(outcome) /\ ~Caught(facet, outcome.raised)
       THEN /\ pc' = [pc EXCEPT ![r] = "raised"]
            /\ exception' = [exception EXCEPT ![r] = Some(outcome.raised)]
            /\ response' = [response EXCEPT ![r] = 500]
            /\ UNCHANGED snapshot
       ELSE /\ snapshot' = [snapshot EXCEPT ![SnapshotOf(r)] = AfterFetch(@, facet, outcome)]
            /\ pc' = [pc EXCEPT ![r] = next]
            /\ UNCHANGED <<exception, response>>
    /\ UNCHANGED <<api_key, request, chain_enum, components, global_score, result>>

OnchainStepOf(r) ==
    /\ pc[r] = "onchain"
    /\ \E outcome \in ConcurrentOnchainOutcomes(api_key, Get(chain_enum[r])) :
         FetchStepOf(r, "onchain", outcome, "market")

MarketStepOf(r) ==
    /\ pc[r] = "market"
    /\ \E outcome \in ConcurrentMarketOutcomes(Get(chain_enum[r])) :
         FetchStepOf(r, "market", outcome, "reputation")

ReputationStepOf(r) ==
    /\ pc[r] = "reputation"
    /\ \E outcome \in ConcurrentReputationOutcomes(api_key, Get(chain_enum[r])) :
         /\ calls' = [calls EXCEPT ![r] = Append(@, [facet |-> "reputation", outcome |-> outcome])]
         /\ snapshot' = [snapshot EXCEPT ![SnapshotOf(r)] = AfterFetch(@, "reputation", outcome)]
    /\ components' = [components EXCEPT ![r] = Components(snapshot'[SnapshotOf(r)])]
    /\ global_score' = [global_score EXCEPT ![r] = Some(GlobalScore(components'[r]))]
    /\ result' = [result EXCEPT ![r] =
                     Some(RiskResult(components'[r], Get(global_score'[r]),
                                     snapshot'[SnapshotOf(r)].reputation))]
    /\ pc' = [pc EXCEPT ![r] = "done"]
    /\ response' = [response EXCEPT ![r] = 200]
    /\ UNCHANGED <<api_key, request, chain_enum, exception>>

NextConcurrent ==
    \E r \in Requests :
        ScanTokenOf(r) \/ OnchainStepOf(r) \/ MarketStepOf(r) \/ ReputationStepOf(r)

ConcurrentSpec == InitConcurrent /\ [][NextConcurrent]_vars

-----------------------------------------------------------------------------
(* Properties of the scorers *)

Scored == pc = "done" /\ result # None

ScoresOf(r) == [i \in 1..Len(r.components) |-> r.components[i].score]

WeightsOf(r) == [i \in 1..Len(r.components) |-> r.components[i].weight]

NamesOf(r) == [i \in 1..Len(r.components) |-> r.components[i].name]

AllAbsent == snapshot.onchain = None /\ snapshot.market = None /\ snapshot.reputation = None

\* C1: with the on-chain, market and reputation facets all absent, the result
\* lists the components contract, market, reputation, advanced with scores
\* 80, 75, 80, 70 and weights 0.4, 0.25, 0.15, 0.2; global_score is their
\* weighted average 76.75 and the label is high.
C1_AllAbsentFallback ==
    (Scored /\ AllAbsent) =>
        LET r == Get(result)
        IN  /\ NamesOf(r) = << "Risque contrat on-chain", "Risque marche & liquidite",
                               "Risque reputation (liens officiels)",
                               "Risques avances du contrat" >>
            /\ ScoresOf(r) = <<80, 75, 80, 70>>
            /\ WeightsOf(r) = <<40, 25, 15, 20>>
            /\ r.global_score.num * (40 + 25 + 15 + 20)
                 = (80 * 40 + 75 * 25 + 80 * 15 + 70 * 20) * r.global_score.den
            /\ r.global_score.num * 100 = 7675 * r.global_score.den
            /\ r.label = "HIGH"

C1_Witness == Scored /\ AllAbsent

\* the unclamped sum of the market scorer for a present best pool
RawMarketSum(pool) ==
    40 + MarketLiquidity(pool).delta + MarketVolume(pool).delta
       + MarketVolatility(pool).delta + MarketFdvRatio(pool).delta

HasPool(snap) == snap.market # None /\ Get(snap.market).best_pool # None

PoolOf(snap) == Get(Get(snap.market).best_pool)

\* C2: for every snapshot, each of the four component scores and the
\* global_score of the result lie in [0, 100].
C2_ScoresInRange ==
    Scored =>
        LET r == Get(result)
        IN  /\ Len(r.components) = 4
            /\ \A i \in 1..4 : r.components[i].score >= 0 /\ r.components[i].score <= 100
            /\ r.global_score.den > 0
            /\ r.global_score.num >= 0
            /\ r.global_score.num <= 100 * r.global_score.den

\* a snapshot whose market deltas sum to more than 100 and whose flags do too
C2_Witness ==
    /\ Scored
    /\ HasPool(snapshot)
    /\ RawMarketSum(PoolOf(snapshot)) > 100
    /\ snapshot.onchain # None
    /\ 40 + SumSeverity(analyze_advanced_risks(snapshot.onchain, snapshot.market)) > 100
    /\ Get(result).components[2].score = 100
    /\ Get(result).components[4].score = 100

\* C6: a scorer whose facet is absent returns the fixed fallback score
\* (80, 75, 80, 70) with exactly one reason, and every scorer carries the
\* same weight whether its facet is absent or present.
C6_FallbackComponents ==
    Scored =>
        LET c == Get(result).components
        IN  /\ WeightsOf(Get(result)) = <<40, 25, 15, 20>>
            /\ snapshot.onchain = None => c[1].score = 80 /\ Len(c[1].reasons) = 1
            /\ (snapshot.market = None \/ ~HasPool(snapshot))
                   => c[2].score = 75 /\ Len(c[2].reasons) = 1
            /\ snapshot.reputation = None => c[3].score = 80 /\ Len(c[3].reasons) = 1
            /\ snapshot.onchain = None => c[4].score = 70 /\ Len(c[4].reasons) = 1

\* market facts are present but hold no best pool, the other facets are absent
C6_Witness ==
    /\ Scored
    /\ snapshot.onchain = None
    /\ snapshot.market # None
    /\ Get(snapshot.market).best_pool = None
    /\ snapshot.reputation = None

\* C8: with a best pool present the market sub-score is clamp(40 + L + V + C + R),
\* clamped once on the raw sum; liquidity < 20k, volume < 10k, |change| > 40 and
\* FDV/liquidity < 10 give clamp(110) = 100.
C8_MarketFormula ==
    (Scored /\ HasPool(snapshot)) =>
        LET p == PoolOf(snapshot)
            liq == p.liquidity_usd
            vol == p.volume_24h_usd
            chg == p.price_change_24h
            fdv == p.fdv_usd
            L == IF liq = None THEN 20
                 ELSE IF Get(liq) < 20000 THEN 35
                 ELSE IF Get(liq) < 100000 THEN 20
                 ELSE IF Get(liq) < 500000 THEN 10
                 ELSE IF Get(liq) < 5000000 THEN 0
                 ELSE -10
            V == IF vol = None THEN 10
                 ELSE IF Get(vol) < 10000 THEN 25
                 ELSE IF Get(vol) < 100000 THEN 10
                 ELSE IF Get(vol) > 1000000 THEN -10
                 ELSE 0
            mag == IF Get(chg) < 0 THEN 0 - Get(chg) ELSE Get(chg)
            C == IF chg = None THEN 0
                 ELSE IF mag > 40 THEN 15
                 ELSE IF mag > 20 THEN 5
                 ELSE IF mag < 5 THEN -5
                 ELSE 0
            R == IF fdv = None \/ liq = None THEN 0
                 ELSE IF Get(liq) <= 0 THEN 0
                 ELSE IF Get(fdv) > 100 * Get(liq) THEN 10
                 ELSE IF Get(fdv) < 10 * Get(liq) THEN -5
                 ELSE 0
            raw == 40 + L + V + C + R
            expected == IF raw > 100 THEN 100 ELSE IF raw < 0 THEN 0 ELSE raw
        IN  /\ Get(result).components[2].score = expected
            /\ (L = 35 /\ V = 25 /\ C = 15 /\ R = -5)
                   => Get(result).components[2].score = 100

\* liquidity 2,000, volume 9,999, change +41 %, FDV 19,999: the raw sum is 110
C8_Witness ==
    /\ Scored
    /\ HasPool(snapshot)
    /\ PoolOf(snapshot) = MarketPoolSummary(Some(2000), Some(9999), Some(41), Some(19999))
    /\ Get(result).components[2].score = 100

\* the market sub-score of the same pool with another liquidity
MarketScoreWithLiquidity(pool, liq) ==
    _score_market_risk(
        Some(MarketTokenData(Some([pool EXCEPT !.liquidity_usd = Some(liq)]), <<>>))).score

\* volume < 10k, |change| > 40 and FDV > 100 * 200,000: both pools reach the ceiling
BothAtCeiling(pool) ==
    /\ pool.volume_24h_usd # None /\ Get(pool.volume_24h_usd) < 10000
    /\ pool.price_change_24h # None /\ Abs(Get(pool.price_change_24h)) > 40
    /\ pool.fdv_usd # None /\ Get(pool.fdv_usd) > 20000000

C10_ContractFormula ==
    (Scored /\ snapshot.onchain # None) =>
        LET o == Get(snapshot.onchain)
            c == Get(result).components[1]
            v == IF o.is_contract_verified = Some(TRUE) THEN -10 ELSE 25
            s == IF o.total_supply_normalized = None THEN 10 ELSE 0
            h == IF o.holders_count = None THEN 5
                 ELSE IF Get(o.holders_count) < 100 THEN 30
                 ELSE IF Get(o.holders_count) < 1000 THEN 15
                 ELSE -5
            raw == 20 + v + s + h
        IN  /\ c.score = (IF raw > 100 THEN 100 ELSE IF raw < 0 THEN 0 ELSE raw)
            /\ Len(c.reasons) = 3
            /\ c.reasons[1][1] \in {"contract_verified", "contract_not_verified"}
            /\ c.reasons[2][1] \in {"supply_unknown", "supply_detected"}
            /\ c.reasons[3][1] \in {"holders_lt_100", "holders_lt_1000",
                                    "holders_significant", "holders_unknown"}

\* verification unknown, supply unknown, 99 holders: 20 + 25 + 10 + 30
C10_Witness ==
    /\ Scored
    /\ snapshot.onchain # None
    /\ Get(snapshot.onchain).is_contract_verified = None
    /\ Get(snapshot.onchain).total_supply_normalized = None
    /\ Get(snapshot.onchain).holders_count = Some(99)
    /\ Get(result).components[1].score = 85

LabelRank(label) ==
    CASE label = "VERY_LOW" -> 0
      [] label = "LOW" -> 1
      [] label = "MEDIUM" -> 2
      [] label = "HIGH" -> 3
      [] label = "CRITICAL" -> 4

\* C4: the label is a total, non-overlapping, monotone function of the score:
\* < 20 very_low, [20, 40) low, [40, 60) medium, [60, 80) high, >= 80
\* critical; a score on a threshold belongs to the upper bracket.
C4_LabelLadder ==
    (pc = "done" /\ result # None) =>
        LET g == Get(result).global_score
            l == Get(result).label
            next == [num |-> g.num + 1, den |-> g.den]
        IN  /\ l \in {"VERY_LOW", "LOW", "MEDIUM", "HIGH", "CRITICAL"}
            /\ l = "VERY_LOW" <=> g.num < 20 * g.den
            /\ l = "LOW" <=> (20 * g.den <= g.num /\ g.num < 40 * g.den)
            /\ l = "MEDIUM" <=> (40 * g.den <= g.num /\ g.num < 60 * g.den)
            /\ l = "HIGH" <=> (60 * g.den <= g.num /\ g.num < 80 * g.den)
            /\ l = "CRITICAL" <=> 80 * g.den <= g.num
            /\ LabelRank(_label_from_score(next)) >= LabelRank(l)

\* the score is exactly 20.00 and the label is low
C4_Witness ==
    /\ pc = "done"
    /\ result # None
    /\ Get(result).global_score.num = 20 * Get(result).global_score.den
    /\ Get(result).label = "LOW"

-----------------------------------------------------------------------------
(* Properties of a scan request *)

\* the request's chain string, lower-cased, is not a member of Chain
UnsupportedChain == Raised(Chain(Lower(Get(request))))

\* C5: whatever way a fetch fails (a typed fetcher error or any other
\* exception), no exception leaves the scan once the chain is accepted, and
\* the scan ends with a complete RiskResult of four components in which
\* the failed facet is absent.
C5_NoFetchFailurePropagates ==
    /\ chain_enum # None => (exception = None /\ pc # "raised")
    /\ pc = "done" =>
          /\ result # None
          /\ Len(Get(result).components) = 4
          /\ "onchain_error" \in snapshot.errors => snapshot.onchain = None
          /\ "market_error" \in snapshot.errors => snapshot.market = None
          /\ "reputation_error" \in snapshot.errors => snapshot.reputation = None

\* C7: a request with an unsupported chain is answered 400 before any fetch
\* or scoring is started, and no other failure is ever answered: the
\* response is 200, or 400 for an unsupported chain.
C7_OnlyUnsupportedChainSurfaces ==
    /\ (pc # "request" /\ UnsupportedChain) =>
          /\ response = 400
          /\ calls = <<>>
          /\ components = <<>>
          /\ result = None
    /\ response # 0 => (response = 200 \/ (response = 400 /\ UnsupportedChain))

-----------------------------------------------------------------------------
(* Properties of the contract scorer: the effect of verification *)

\* the contract sub-score of the same facts with another verification status
ContractScoreWithVerification(onchain, verified) ==
    _score_contract_risk(Some([onchain EXCEPT !.is_contract_verified = verified])).score

\* C11: of two on-chain facts that differ only in is_contract_verified, the
\* verified one has the strictly lower contract sub-score, lower by exactly
\* 35, whether the other one is unverified or of unknown status.
C11_VerifiedLowerBy35 ==
    (Scored /\ snapshot.onchain # None
            /\ Get(snapshot.onchain).is_contract_verified = Some(TRUE)) =>
        LET o == Get(snapshot.onchain)
            verified == Get(result).components[1].score
        IN  /\ verified < ContractScoreWithVerification(o, Some(FALSE))
            /\ ContractScoreWithVerification(o, Some(FALSE)) - verified = 35
            /\ ContractScoreWithVerification(o, None) - verified = 35

\* verified, supply present, 5000 holders: 20 - 10 - 5 = 5 against 40
C11_Witness ==
    /\ Scored
    /\ snapshot.onchain # None
    /\ Get(snapshot.onchain).is_contract_verified = Some(TRUE)
    /\ Get(snapshot.onchain).total_supply_normalized # None
    /\ Get(snapshot.onchain).holders_count = Some(5000)
    /\ Get(result).components[1].score = 5
    /\ ContractScoreWithVerification(Get(snapshot.onchain), Some(FALSE)) = 40

-----------------------------------------------------------------------------
(* Properties of the advanced component and of the detector *)

\* the contract source text the detector works on is present
HasSourceText(snap) ==
    snap.onchain # None /\ _extract_source_code(Get(snap.onchain)) # <<>>

FlagsOf(snap) == analyze_advanced_risks(snap.onchain, snap.market)

\* C12: whenever the contract source text is absent (the on-chain facet is
\* missing, or present without source code) the advanced sub-score is the
\* fallback 70; the low score 20 is returned only when source text is
\* present and no rule matches.
C12_AbsentSourceFallback ==
    Scored =>
        LET advanced == Get(result).components[4]
        IN  /\ ~HasSourceText(snapshot) => advanced.score = 70
            /\ advanced.score = 20 => (HasSourceText(snapshot) /\ FlagsOf(snapshot) = <<>>)

\* number of flags of a severity
CountSeverity(flags, severity) ==
    Cardinality({ i \in 1..Len(flags) : flags[i].severity = severity })

\* source made of the mint and owner indicators only
MintOwnerText == JoinFragments(RuleFragments[1], {2, 6}, 1)

\* C13: when the detector returns a non-empty flag list the advanced
\* sub-score is clamp(40 + sum of the flags' deltas), low +5, medium +10,
\* high +20, critical +30, with one reason per flag in the detector's order;
\* source with only the mint and owner indicators gives two flags, high then
\* low, and the score 65.
C13_AdvancedFormula ==
    (Scored /\ FlagsOf(snapshot) # <<>>) =>
        LET flags == FlagsOf(snapshot)
            advanced == Get(result).components[4]
            raw == 40 + 5 * CountSeverity(flags, "low") + 10 * CountSeverity(flags, "medium")
                      + 20 * CountSeverity(flags, "high") + 30 * CountSeverity(flags, "critical")
        IN  /\ advanced.score = (IF raw > 100 THEN 100 ELSE raw)
            /\ Len(advanced.reasons) = Len(flags)
            /\ \A i \in 1..Len(flags) : advanced.reasons[i] = <<flags[i].name>>
            /\ (/\ _extract_source_code(Get(snapshot.onchain)) = MintOwnerText
                /\ Get(snapshot.onchain).name # Some(N_proxy_name)) =>
                   /\ [i \in 1..Len(flags) |-> flags[i].severity] = <<"high", "low">>
                   /\ advanced.score = 65

\* the mint and owner indicators alone: two reasons, score 65
C13_Witness ==
    /\ Scored
    /\ snapshot.onchain # None
    /\ _extract_source_code(Get(snapshot.onchain)) = MintOwnerText
    /\ Get(snapshot.onchain).name = Some(N_token)
    /\ Len(Get(result).components[4].reasons) = 2
    /\ Get(result).components[4].score = 65

\* the rules of the detector in their fixed order: name, severity, keywords
RuleNames ==
    <<"Contrat proxy / upgradable", "Fonction de mint detectee", "Mecanisme de blacklist",
      "Contrat pausable / trading lock potentiel", "Taxes sur les transferts",
      "Controle proprietaire (Ownable)", "Limites de trading / anti-bot">>

RuleSeverities == <<"medium", "high", "medium", "medium", "medium", "low", "low">>

RuleKeywords ==
    << {K_proxy, K_delegatecall, K_transparentupgradeableproxy},
       {K_function_mint, K_mint_paren},
       {K_blacklist, K_blocklist, K_isblacklisted},
       {K_pausable, K_whennotpaused, K_pause_call},
       { tax_keywords[k] : k \in 1..Len(tax_keywords) },
       {K_onlyowner, K_ownable},
       {K_cooldown, K_maxtransactionamount} >>

\* one of the rule's own keywords occurs: in the lower-cased source, or for
\* the proxy rule "proxy" in the lower-cased contract name
RuleOccurs(onchain, r) ==
    \/ \E kw \in RuleKeywords[r] : Contains(Lower(_extract_source_code(onchain)), kw)
    \/ r = 1 /\ Truthy(onchain.name) /\ Contains(Lower(Get(onchain.name)), K_proxy)

\* the rule a flag comes from, 0 if none
RuleOf(flag) ==
    IF \E r \in 1..7 : RuleNames[r] = flag.name
    THEN CHOOSE r \in 1..7 : RuleNames[r] = flag.name
    ELSE 0

\* C14: the seven rules are evaluated independently: a rule's flag is
\* present exactly when one of that rule's own keywords occurs, whatever the
\* other rules do; each rule gives at most one flag, of its fixed severity;
\* the output is a subsequence of the fixed rule order.
C14_IndependentRules ==
    (Scored /\ HasSourceText(snapshot)) =>
        LET o == Get(snapshot.onchain)
            flags == FlagsOf(snapshot)
        IN  /\ \A r \in 1..7 :
                  (\E i \in 1..Len(flags) : flags[i].name = RuleNames[r]) <=> RuleOccurs(o, r)
            /\ \A i \in 1..Len(flags) :
                  /\ RuleOf(flags[i]) # 0
                  /\ flags[i].severity = RuleSeverities[RuleOf(flags[i])]
            /\ \A i, j \in 1..Len(flags) : i < j => RuleOf(flags[i]) < RuleOf(flags[j])

\* the mint and blacklist rules match together, the other rules do not
C14_Witness ==
    /\ Scored
    /\ HasSourceText(snapshot)
    /\ Get(snapshot.onchain).name = None
    /\ [i \in 1..Len(FlagsOf(snapshot)) |-> FlagsOf(snapshot)[i].name]
         = <<RuleNames[2], RuleNames[3]>>

\* C15: the detector returns an empty list, raising nothing, when the
\* on-chain facet is None, when it carries no raw source-code response or
\* when the extracted source text is empty; no rule is evaluated then, not
\* even the one that looks for "proxy" in the contract name.
C15_NoSourceNoFlags ==
    (Scored /\ ~HasSourceText(snapshot)) =>
        /\ FlagsOf(snapshot) = <<>>
        /\ Get(result).components[4].reasons
             \in { << <<"no_onchain_data">> >>, << <<"no_advanced_pattern">> >> }

\* a contract named MyProxyToken whose source text is empty
C15_Witness ==
    /\ Scored
    /\ snapshot.onchain # None
    /\ Get(snapshot.onchain).name = Some(N_proxy_name)
    /\ Get(snapshot.onchain).raw_source_code_response # None
    /\ Get(Get(snapshot.onchain).raw_source_code_response).result.items # <<>>
    /\ ~HasSourceText(snapshot)
    /\ FlagsOf(snapshot) = <<>>

-----------------------------------------------------------------------------
(* Properties of the reputation scorer *)

\* how many of the four links are non-empty
NonEmptyLinks(links) ==
    Cardinality({ f \in {"website", "twitter", "discord", "github"} :
                    links[f] # None /\ links[f] # Some(<<>>) })

\* C16: with the reputation facet present the reputation sub-score depends
\* only on the number of non-empty links among website, twitter, discord and
\* github, through 0 -> 85, 1 -> 70, 2 -> 50, 3 -> 35, 4 -> 20, whichever links
\* they are; an empty-string link counts as absent.
C16_ReputationTable ==
    (Scored /\ snapshot.reputation # None) =>
        LET n == NonEmptyLinks(Get(snapshot.reputation))
        IN  Get(result).components[3].score
              = (CASE n = 0 -> 85 [] n = 1 -> 70 [] n = 2 -> 50 [] n = 3 -> 35 [] n = 4 -> 20)

\* website is the empty string, twitter and discord are set, github is
\* missing: two links, score 50
C16_Witness ==
    /\ Scored
    /\ snapshot.reputation # None
    /\ Get(snapshot.reputation).website = Some(<<>>)
    /\ Get(snapshot.reputation).twitter = Some(U_link)
    /\ Get(snapshot.reputation).discord = Some(U_link)
    /\ Get(snapshot.reputation).github = None
    /\ Get(result).components[3].score = 50

-----------------------------------------------------------------------------
(* Properties of concurrent scan requests *)

RECURSIVE SoloSnapshot(_)
\* the snapshot a request builds when it runs alone and its fetches end as
\* recorded in log
SoloSnapshot(log) ==
    IF log = <<>> THEN Snapshot(None, None, None, {})
    ELSE AfterFetch(SoloSnapshot(SubSeq(log, 1, Len(log) - 1)),
                    log[Len(log)].facet, log[Len(log)].outcome)

\* the RiskResult of that run
SoloResult(log) ==
    LET comps == Components(SoloSnapshot(log))
    IN  RiskResult(comps, GlobalScore(comps), SoloSnapshot(log).reputation)

\* C17: scan requests whose executions interleave at any await point each
\* produce the RiskResult they would produce when run alone with the same
\* fetch responses: nothing one scan writes is read by another.
C17_RequestIsolation ==
    \A r \in Requests :
        /\ pc[r] = "done" =>
              /\ Len(calls[r]) = 3
              /\ result[r] = Some(SoloResult(calls[r]))
        /\ pc[r] # "done" => result[r] = None

\* two requests have finished with different on-chain facets and results
C17_Witness ==
    /\ pc[1] = "done"
    /\ pc[2] = "done"
    /\ calls[1][1].outcome.value # None
    /\ calls[2][1].outcome.value = None
    /\ result[1] # result[2]
    /\ result[2] = Some(SoloResult(calls[2]))

-----------------------------------------------------------------------------
(* Properties of the order of fetching and scoring *)

Facets == {"onchain", "market", "reputation"}

\* the fetch of the facet has finished: with a value, or with its failure
\* recorded and the facet left absent
Finished(snap, facet) == (snap[facet] # None) # ((facet \o "_error") \in snap.errors)

\* when the scorers have run, the three fetches were started once each, in
\* order, and all have finished
AllFetchedBeforeScoring ==
    (components # <<>> \/ result # None) =>
        /\ calls = <<"onchain", "market", "reputation">>
        /\ \A facet \in Facets : Finished(snapshot, facet)

\* a step starts no fetch a second time, and a fetch in flight ends with its
\* facet stored, its failure recorded, or its exception leaving the scan
NoRetryNoCancel ==
    /\ \/ calls' = calls
       \/ \E facet \in Facets :
            /\ calls' = Append(calls, facet)
            /\ \A i \in 1..Len(calls) : calls[i] # facet
    /\ (pc \in Facets /\ pc' # pc) =>
          \/ Finished(snapshot', pc) /\ ~Finished(snapshot, pc)
          \/ pc' = "raised" /\ exception' # None /\ components' = <<>>

-----------------------------------------------------------------------------
(* Free-text scan, src/utils/scoring.py: strings and numbers *)

DigitChars == <<"0", "1", "2", "3", "4", "5", "6", "7", "8", "9">>

CharsOf(chars) == {chars[i] : i \in 1..Len(chars)}

Whitespace == {" ", "\t", "\n"}

\* str.strip()
strip(s) ==
    LET kept == {i \in 1..Len(s) : s[i] \notin Whitespace}
    IN  IF kept = {} THEN <<>>
        ELSE SubSeq(s, CHOOSE i \in kept : \A j \in kept : i <= j,
                       CHOOSE i \in kept : \A j \in kept : i >= j)

\* str.startswith(prefix)
startswith(s, prefix) == Len(s) >= Len(prefix) /\ SubSeq(s, 1, Len(prefix)) = prefix

\* any(kw in normalized for kw in keywords)
AnyIn(keywords, s) == \E i \in 1..Len(keywords) : Contains(s, keywords[i])

\* A non-negative binary64 value N * 2^-55 held as N = a * 2^40 + b * 2^20 + c.
\* Every product and sum of the aggregation is a multiple of 2^-55 before it
\* is rounded, so the 53-bit rounding of the hardware is computed exactly.
Limb == 2^20

Double(a, b, c) == [a |-> a, b |-> b, c |-> c]

Carry(a, b, c) ==
    LET b0 == b + (c \div Limb)
    IN  Double(a + (b0 \div Limb), b0 % Limb, c % Limb)

RECURSIVE BitLen(_)
BitLen(n) == IF n = 0 THEN 0 ELSE 1 + BitLen(n \div 2)

\* round to nearest, ties to even, at 53 significant bits
RoundDouble(x) ==
    LET drop == BitLen(x.a) + 40 - 53
    IN  IF x.a = 0 \/ drop <= 0 THEN x
        ELSE LET unit == 2^drop
                 r == x.c % unit
                 odd == (x.c \div unit) % 2 = 1
                 up == 2 * r > unit \/ (2 * r = unit /\ odd)
             IN  Carry(x.a, x.b, x.c - r + (IF up THEN unit ELSE 0))

\* float(n) for an int n in 0..100
FromInt(n) == Double(n * 2^15, 0, 0)

\* n * w for an int n in 0..100 and a float w
FloatMul(n, w) == RoundDouble(Carry(w.a * n, w.b * n, w.c * n))

\* x + y
FloatAdd(x, y) == RoundDouble(Carry(x.a + y.a, x.b + y.b, x.c + y.c))

\* x < y
FloatLess(x, y) ==
    \/ x.a < y.a
    \/ x.a = y.a /\ x.b < y.b
    \/ x.a = y.a /\ x.b = y.b /\ x.c < y.c

\* x - y for y <= x
FloatSub(x, y) ==
    RoundDouble(Carry(x.a - y.a - 2, x.b - y.b + 2 * Limb - 1, x.c - y.c + Limb))

\* int(x)
Trunc(x) == x.a \div 2^15

\* the float literals of compute_hacherscan_scores, as the nearest binary64
hack_weight_contract == Double(13107, 209715, 209716)

hack_weight_liquidity == Double(8192, 0, 0)

hack_weight_distribution == Double(6553, 629145, 629146)

hack_weight_reputation == Double(4915, 209715, 209715)

weight_hack_global == Double(22937, 629145, 629144)

weight_quantum_global == Double(9830, 419430, 419430)

\* _clamp on an int
_clamp(value) == IF value < 0 THEN 0 ELSE IF value > 100 THEN 100 ELSE value

\* _clamp on a non-negative float: int(max(0, min(100, value)))
_clamp_float(value) == IF FloatLess(FromInt(100), value) THEN 100 ELSE Trunc(value)

SubScore(value, reasons) == [value |-> value, reasons |-> reasons]

HacherScanResult(hacher_score, hack_risk, quantum_risk, risk_level, message) ==
    [hacher_score |-> hacher_score, hack_risk |-> hack_risk,
     quantum_risk |-> quantum_risk, risk_level |-> risk_level, message |-> message]

-----------------------------------------------------------------------------
(* Free-text scan, src/utils/scoring.py: the six modules *)

\* re.match(r"^[a-z0-9.-]+\.[a-z]{2,}$", normalized)
DomainPattern(s) ==
    \E i \in 2..(Len(s) - 2) :
        /\ s[i] = "."
        /\ \A j \in 1..(i - 1) : s[j] \in CharsOf(LowerChars) \cup CharsOf(DigitChars) \cup {".", "-"}
        /\ \A j \in (i + 1)..Len(s) : s[j] \in CharsOf(LowerChars)

\* [a-km-zA-HJ-NP-Z1-9]
Base58Chars ==
    (CharsOf(LowerChars) \ {"l"}) \cup (CharsOf(UpperChars) \ {"I", "O"})
        \cup (CharsOf(DigitChars) \ {"0"})

\* re.match(r"^[13][a-km-zA-HJ-NP-Z1-9]{25,34}$", normalized)
WalletPattern(s) ==
    /\ Len(s) \in 26..35
    /\ s[1] \in {"1", "3"}
    /\ \A j \in 2..Len(s) : s[j] \in Base58Chars

detect_entity_type_and_known_project(normalized) ==
    LET entity_type ==
            IF startswith(normalized, <<"0", "x">>) /\ Len(normalized) \in {42, 64}
            THEN "evm_contract"
            ELSE IF DomainPattern(normalized) THEN "domain"
            ELSE IF WalletPattern(normalized) THEN "wallet"
            ELSE "project"
        known_project ==
            IF Contains(normalized, <<"n", "a", "o", "r", "i", "s">>) THEN Some("naoris")
            ELSE IF Contains(normalized, <<"q", "a", "n", "x">>) \/ Contains(normalized, <<"q", "a", "n", "p", "l", "a", "t", "f", "o", "r", "m">>)
            THEN Some("qanx")
            ELSE IF normalized \in {<<"b", "t", "c">>, <<"b", "i", "t", "c", "o", "i", "n">>} THEN Some("btc")
            ELSE IF normalized \in {<<"e", "t", "h">>, <<"e", "t", "h", "e", "r", "e", "u", "m">>} THEN Some("eth")
            ELSE None
    IN  [entity_type |-> entity_type,
         known_project |-> known_project,
         reasons |-> <<"entity_" \o entity_type>>
                       \o (IF known_project = None THEN <<>>
                           ELSE <<"known_" \o Get(known_project)>>)]

\* one `if hit: risk += delta; reasons.append(reason)` block of a module
Signal(hit, delta, reason) == [hit |-> hit, delta |-> delta, reason |-> reason]

\* the blocks of a module run in order on its base risk and reasons
RECURSIVE ApplySignals(_, _, _)
ApplySignals(score, signals, i) ==
    IF i > Len(signals) THEN SubScore(_clamp(score.value), score.reasons)
    ELSE ApplySignals(IF signals[i].hit
                      THEN SubScore(score.value + signals[i].delta,
                                    Append(score.reasons, signals[i].reason))
                      ELSE score,
                      signals, i + 1)

analyze_contract_and_code(normalized, entity_type, known_project) ==
    LET profile ==
            IF known_project = Some("naoris") THEN SubScore(25, <<"contract_naoris">>)
            ELSE IF known_project = Some("qanx") THEN SubScore(45, <<"contract_qanx">>)
            ELSE IF known_project = Some("btc") THEN SubScore(20, <<"contract_btc">>)
            ELSE IF known_project = Some("eth") THEN SubScore(30, <<"contract_eth">>)
            ELSE SubScore(60, <<>>)
        entity ==
            IF entity_type = "evm_contract"
            THEN SubScore(profile.value + 10, Append(profile.reasons, "evm_contract"))
            ELSE IF entity_type = "wallet"
            THEN SubScore(profile.value + 5, Append(profile.reasons, "wallet"))
            ELSE profile
    IN  ApplySignals(entity, <<
            Signal(Contains(normalized, <<"a", "u", "d", "i", "t">>), -12, "audit"),
            Signal(Contains(normalized, <<"a", "u", "d", "i", "t", "e", "d", " ", "b", "y">>) \/ Contains(normalized, <<"c", "e", "r", "t", "i", "k">>),
                   -8, "third_party_audit"),
            Signal(Contains(normalized, <<"m", "u", "l", "t", "i", "s", "i", "g">>), -7, "multisig"),
            Signal(Contains(normalized, <<"o", "p", "e", "n", " ", "s", "o", "u", "r", "c", "e">>) \/ Contains(normalized, <<"g", "i", "t", "h", "u", "b">>),
                   -5, "open_source"),
            Signal(Contains(normalized, <<"p", "r", "o", "x", "y">>) /\ Contains(normalized, <<"u", "p", "g", "r", "a", "d", "a", "b", "l", "e">>),
                   8, "upgradable_proxy"),
            Signal(Contains(normalized, <<"n", "o", " ", "a", "u", "d", "i", "t">>) \/ Contains(normalized, <<"u", "n", "a", "u", "d", "i", "t", "e", "d">>),
                   10, "no_audit"),
            Signal(Contains(normalized, <<"r", "e", "n", "o", "u", "n", "c", "e", "d">>) /\ Contains(normalized, <<"f", "a", "l", "s", "e">>),
                   8, "not_renounced")
        >>, 1)

analyze_liquidity_and_market(normalized) ==
    ApplySignals(SubScore(60, <<>>), <<
        Signal(Contains(normalized, <<"l", "i", "q", "u", "i", "d", "i", "t", "y", " ", "l", "o", "c", "k", "e", "d">>) \/ Contains(normalized, <<"l", "p", " ", "l", "o", "c", "k", "e", "d">>),
               -15, "lp_locked"),
        Signal(Contains(normalized, <<"l", "p", " ", "b", "u", "r", "n", "e", "d">>) \/ Contains(normalized, <<"l", "i", "q", "u", "i", "d", "i", "t", "y", " ", "b", "u", "r", "n", "e", "d">>),
               -10, "lp_burned"),
        Signal(Contains(normalized, <<"n", "o", " ", "t", "a", "x">>), -3, "no_tax"),
        Signal(Contains(normalized, <<"l", "o", "w", " ", "l", "i", "q", "u", "i", "d", "i", "t", "y">>), 12, "low_liquidity"),
        Signal(Contains(normalized, <<"h", "i", "g", "h", " ", "t", "a", "x">>) \/ Contains(normalized, <<"b", "u", "y", " ", "t", "a", "x">>)
                   \/ Contains(normalized, <<"s", "e", "l", "l", " ", "t", "a", "x">>),
               8, "high_tax"),
        Signal(Contains(normalized, <<"a", "n", "t", "i", "-", "w", "h", "a", "l", "e", " ", "d", "i", "s", "a", "b", "l", "e", "d">>), 8, "anti_whale_disabled")
    >>, 1)

\* mutant: 'anti-whale' followed by ' disabled' is not counted as a mechanism
Mut_analyze_distribution_and_holders_not_disabled(normalized) ==
    ApplySignals(SubScore(55, <<>>), <<
        Signal(Contains(normalized, <<"t", "o", "p", " ", "1", "0", " ", "h", "o", "l", "d">>) \/ Contains(normalized, <<"t", "o", "p", "1", "0">>),
               10, "top10"),
        Signal(Contains(normalized, <<"a", "n", "t", "i", "-", "w", "h", "a", "l", "e">>) /\ ~Contains(normalized, <<"a", "n", "t", "i", "-", "w", "h", "a", "l", "e", " ", "d", "i", "s", "a", "b", "l", "e", "d">>),
               -8, "anti_whale"),
        Signal(Contains(normalized, <<"f", "a", "i", "r", " ", "l", "a", "u", "n", "c", "h">>), -5, "fair_launch"),
        Signal(Contains(normalized, <<"t", "e", "a", "m", " ", "w", "a", "l", "l", "e", "t">>) /\ Contains(normalized, <<"4", "0", "%">>),
               12, "team_wallet")
    >>, 1)

analyze_distribution_and_holders(normalized) ==
    ApplySignals(SubScore(55, <<>>), <<
        Signal(Contains(normalized, <<"t", "o", "p", " ", "1", "0", " ", "h", "o", "l", "d">>) \/ Contains(normalized, <<"t", "o", "p", "1", "0">>),
               10, "top10"),
        Signal(Contains(normalized, <<"a", "n", "t", "i", "-", "w", "h", "a", "l", "e">>), -8, "anti_whale"),
        Signal(Contains(normalized, <<"f", "a", "i", "r", " ", "l", "a", "u", "n", "c", "h">>), -5, "fair_launch"),
        Signal(Contains(normalized, <<"t", "e", "a", "m", " ", "w", "a", "l", "l", "e", "t">>) /\ Contains(normalized, <<"4", "0", "%">>),
               12, "team_wallet")
    >>, 1)

risky_keywords ==
    <<<<"1", "0", "0", "0", "x">>, <<"1", "0", "0", "x">>, <<"p", "u", "m", "p">>, <<"m", "o", "o", "n">>, <<"l", "a", "m", "b", "o">>,
      <<"n", "o", " ", "r", "i", "s", "k">>, <<"g", "a", "r", "a", "n", "t", "i">>, <<"g", "u", "a", "r", "a", "n", "t", "e", "e", "d">>, <<"d", "o", "u", "b", "l", "e", " ", "y", "o", "u", "r", " ", "m", "o", "n", "e", "y">>>>

analyze_offchain_reputation(normalized) ==
    ApplySignals(SubScore(55, <<>>), <<
        Signal(AnyIn(risky_keywords, normalized), 15, "marketing_promises"),
        Signal(Contains(normalized, <<"a", "i", "r", "d", "r", "o", "p">>) /\ Contains(normalized, <<"f", "r", "e", "e">>),
               8, "free_airdrop"),
        Signal(Contains(normalized, <<"k", "y", "c">>), -8, "kyc"),
        Signal(Contains(normalized, <<"d", "o", "x", "x", "e", "d", " ", "t", "e", "a", "m">>) \/ Contains(normalized, <<"t", "e", "a", "m", " ", "d", "o", "x", "x", "e", "d">>),
               -10, "doxxed_team"),
        Signal(Contains(normalized, <<"l", "i", "s", "t", "e", "d", " ", "o", "n", " ", "c", "o", "i", "n", "g", "e", "c", "k", "o">>)
                   \/ Contains(normalized, <<"l", "i", "s", "t", "e", "d", " ", "o", "n", " ", "c", "m", "c">>),
               -5, "listed"),
        Signal(Contains(normalized, <<"p", "a", "r", "t", "n", "e", "r", "s", "h", "i", "p">>) /\ Contains(normalized, <<"e", "x", "c", "h", "a", "n", "g", "e">>),
               -4, "exchange_partnership")
    >>, 1)

pq_keywords ==
    <<<<"p", "o", "s", "t", "-", "q", "u", "a", "n", "t", "u", "m">>, <<"p", "o", "s", "t", "q", "u", "a", "n", "t", "u", "m">>, <<"q", "u", "a", "n", "t", "u", "m", " ", "s", "a", "f", "e">>,
      <<"p", "q", "c">>, <<"l", "a", "t", "t", "i", "c", "e">>, <<"h", "a", "s", "h", "-", "b", "a", "s", "e", "d">>, <<"h", "a", "s", "h", " ", "b", "a", "s", "e", "d">>>>

Mut_analyze_quantum_profile_no_alias(normalized, known_project) ==
    ApplySignals(SubScore(60, <<>>), <<
        Signal(AnyIn(pq_keywords, normalized), -20, "post_quantum"),
        Signal(Contains(normalized, <<"e", "c", "d", "s", "a">>) \/ Contains(normalized, <<"r", "s", "a">>),
               10, "classical_crypto")
    >>, 1)

analyze_quantum_profile(normalized, known_project) ==
    LET profile ==
            IF known_project = Some("naoris") THEN SubScore(20, <<"quantum_naoris">>)
            ELSE IF known_project = Some("qanx") THEN SubScore(35, <<"quantum_qanx">>)
            ELSE IF known_project \in {Some("btc"), Some("eth")}
            THEN SubScore(80, <<"quantum_classical">>)
            ELSE SubScore(60, <<>>)
    IN  ApplySignals(profile, <<
            Signal(AnyIn(pq_keywords, normalized), -20, "post_quantum"),
            Signal(Contains(normalized, <<"e", "c", "d", "s", "a">>) \/ Contains(normalized, <<"r", "s", "a">>),
                   10, "classical_crypto")
        >>, 1)

-----------------------------------------------------------------------------
(* Free-text scan, src/utils/scoring.py: compute_hacherscan_scores *)

\* the six modules run on the normalised query
Modules(query) ==
    LET normalized == Lower(strip(query))
        meta == detect_entity_type_and_known_project(normalized)
    IN  [meta |-> meta,
         contract |-> analyze_contract_and_code(normalized, meta.entity_type,
                                                meta.known_project),
         liquidity |-> analyze_liquidity_and_market(normalized),
         distribution |-> analyze_distribution_and_holders(normalized),
         reputation |-> analyze_offchain_reputation(normalized),
         quantum |-> analyze_quantum_profile(normalized, meta.known_project)]

\* hack_risk: the four products are added left to right, each product and
\* each sum rounded to binary64, and the sum is truncated by _clamp
HackRisk(contract, liquidity, distribution, reputation) ==
    LET hack_risk_raw ==
            FloatAdd(FloatAdd(FloatAdd(FloatMul(contract, hack_weight_contract),
                                       FloatMul(liquidity, hack_weight_liquidity)),
                              FloatMul(distribution, hack_weight_distribution)),
                     FloatMul(reputation, hack_weight_reputation))
    IN  _clamp_float(hack_risk_raw)

\* hacher_score = _clamp(100 - total_risk)
HacherScore(hack_risk, quantum_risk) ==
    LET total_risk == FloatAdd(FloatMul(hack_risk, weight_hack_global),
                               FloatMul(quantum_risk, weight_quantum_global))
    IN  IF FloatLess(FromInt(100), total_risk) THEN 0
        ELSE _clamp_float(FloatSub(FromInt(100), total_risk))

Mut_RiskLevel_strict_medium(hacher_score) ==
    IF hacher_score >= 70 THEN "LOW"
    ELSE IF hacher_score > 40 THEN "MEDIUM"
    ELSE "HIGH"

RiskLevel(hacher_score) ==
    IF hacher_score >= 70 THEN "LOW"
    ELSE IF hacher_score >= 40 THEN "MEDIUM"
    ELSE "HIGH"

\* the aggregation of the modules' sub-scores and reasons
\* mutant: the reasons of the entity detection are not collected
Mut_Aggregate_no_meta_reasons(query, modules) ==
    LET sub_reasons == modules.contract.reasons \o modules.liquidity.reasons
                           \o modules.distribution.reasons \o modules.reputation.reasons
                           \o modules.quantum.reasons
        collected == sub_reasons
        global_reasons == IF collected = <<>> THEN <<"generic_profile">> ELSE collected
        hack_risk == HackRisk(modules.contract.value, modules.liquidity.value,
                              modules.distribution.value, modules.reputation.value)
        quantum_risk == modules.quantum.value
        hacher_score == HacherScore(hack_risk, quantum_risk)
        risk_level == RiskLevel(hacher_score)
    IN  HacherScanResult(hacher_score, hack_risk, quantum_risk, risk_level,
                         [original_query |-> query, hacher_score |-> hacher_score,
                          risk_level |-> risk_level, hack_risk |-> hack_risk,
                          quantum_risk |-> quantum_risk, reasons |-> global_reasons])

Aggregate(query, modules) ==
    LET sub_reasons == modules.contract.reasons \o modules.liquidity.reasons
                           \o modules.distribution.reasons \o modules.reputation.reasons
                           \o modules.quantum.reasons
        collected == modules.meta.reasons \o sub_reasons
        global_reasons == IF collected = <<>> THEN <<"generic_profile">> ELSE collected
        hack_risk == HackRisk(modules.contract.value, modules.liquidity.value,
                              modules.distribution.value, modules.reputation.value)
        quantum_risk == modules.quantum.value
        hacher_score == HacherScore(hack_risk, quantum_risk)
        risk_level == RiskLevel(hacher_score)
    IN  HacherScanResult(hacher_score, hack_risk, quantum_risk, risk_level,
                         [original_query |-> query, hacher_score |-> hacher_score,
                          risk_level |-> risk_level, hack_risk |-> hack_risk,
                          quantum_risk |-> quantum_risk, reasons |-> global_reasons])

compute_hacherscan_scores(query) == Aggregate(query, Modules(query))

\* compute_hacherscan_scores on the query held in request: components keeps
\* the five sub-scores, result the HacherScanResult
ComputeHacherscanScores ==
    /\ pc = "query"
    /\ LET modules == Modules(Get(request))
       IN  /\ components' = <<modules.contract, modules.liquidity, modules.distribution,
                              modules.reputation, modules.quantum>>
           /\ result' = Some(Aggregate(Get(request), modules))
    /\ pc' = "scored"
    /\ UNCHANGED <<api_key, request, chain_enum, snapshot, calls, global_score, exception,
                   response>>

\* queries: a subject followed by one phrase, or none, for each module
Subjects == {<<"t", "o", "k", "e", "n">>, <<"N", "a", "o", "r", "i", "s">>}

ContractPhrases ==
    {<<>>, <<"c", "e", "r", "t", "i", "k">>, <<"a", "u", "d", "i", "t", "e", "d", " ", "m", "u", "l", "t", "i", "s", "i", "g">>, <<"u", "n", "a", "u", "d", "i", "t", "e", "d">>, <<"p", "r", "o", "x", "y", " ", "u", "p", "g", "r", "a", "d", "a", "b", "l", "e", " ", "g", "i", "t", "h", "u", "b">>}

LiquidityPhrases ==
    {<<>>, <<"l", "p", " ", "b", "u", "r", "n", "e", "d">>, <<"h", "i", "g", "h", " ", "t", "a", "x">>, <<"l", "i", "q", "u", "i", "d", "i", "t", "y", " ", "l", "o", "c", "k", "e", "d", " ", "n", "o", " ", "t", "a", "x">>,
     <<"l", "o", "w", " ", "l", "i", "q", "u", "i", "d", "i", "t", "y", " ", "a", "n", "t", "i", "-", "w", "h", "a", "l", "e", " ", "d", "i", "s", "a", "b", "l", "e", "d">>}

DistributionPhrases == {<<>>, <<"a", "n", "t", "i", "-", "w", "h", "a", "l", "e">>, <<"t", "o", "p", "1", "0", " ", "t", "e", "a", "m", " ", "w", "a", "l", "l", "e", "t", " ", "4", "0", "%">>, <<"f", "a", "i", "r", " ", "l", "a", "u", "n", "c", "h">>}

ReputationPhrases ==
    {<<>>, <<"p", "u", "m", "p", " ", "k", "y", "c">>, <<"p", "u", "m", "p", " ", "k", "y", "c", " ", "t", "e", "a", "m", " ", "d", "o", "x", "x", "e", "d">>, <<"f", "r", "e", "e", " ", "a", "i", "r", "d", "r", "o", "p", " ", "1", "0", "0", "x">>,
     <<"l", "i", "s", "t", "e", "d", " ", "o", "n", " ", "c", "m", "c">>}

QuantumPhrases == {<<>>, <<"e", "c", "d", "s", "a">>}

\* " ".join of the non-empty phrases
RECURSIVE JoinPhrases(_, _)
JoinPhrases(phrases, i) ==
    IF i > Len(phrases) THEN <<>>
    ELSE LET rest == JoinPhrases(phrases, i + 1)
         IN  IF phrases[i] = <<>> THEN rest
             ELSE IF rest = <<>> THEN phrases[i]
             ELSE phrases[i] \o <<" ">> \o rest

PhraseQueries ==
    {JoinPhrases(<<s, c, l, d, r, q>>, 1) :
        s \in Subjects, c \in ContractPhrases, l \in LiquidityPhrases,
        d \in DistributionPhrases, r \in ReputationPhrases, q \in QuantumPhrases}

\* queries that are one word, an address or a domain, some with surrounding
\* whitespace or capitals
PlainQueries ==
    {<<>>, <<"b", "t", "c">>, <<"B", "i", "t", "c", "o", "i", "n">>, <<" ", "E", "T", "H", " ">>, <<"e", "t", "h", "e", "r", "e", "u", "m">>, <<"e", "t", "h", "e", "r", "e", "u", "m", " ", "c", "l", "a", "s", "s", "i", "c">>,
     <<"q", "a", "n", "x">>, <<"Q", "A", "N", "p", "l", "a", "t", "f", "o", "r", "m", " ", "l", "a", "t", "t", "i", "c", "e">>, <<"n", "a", "o", "r", "i", "s", " ", "a", "u", "d", "i", "t", "e", "d", " ", "m", "u", "l", "t", "i", "s", "i", "g">>,
     <<"a", "n", "t", "i", "-", "w", "h", "a", "l", "e", " ", "d", "i", "s", "a", "b", "l", "e", "d">>, <<"h", "o", "n", "e", "y", "p", "o", "t", " ", "t", "e", "s", "t">>, <<"p", "o", "s", "t", "-", "q", "u", "a", "n", "t", "u", "m", " ", "r", "s", "a">>,
     <<"0", "x", "5", "2", "9", "0", "8", "4", "0", "0", "0", "9", "8", "5", "2", "7", "8", "8", "6", "e", "0", "f", "7", "0", "3", "0", "0", "6", "9", "8", "5", "7", "d", "2", "e", "4", "1", "6", "9", "e", "e", "7">>,
     <<"0", "x", "5", "2", "9", "0", "8", "4", "0", "0", "0", "9", "8", "5", "2", "7", "8", "8", "6", "e", "0", "f", "7", "0", "3", "0", "0", "6", "9", "8", "5", "7", "d", "2", "e", "4", "1", "6", "9", "e", "e", "7", " ", "p", "q", "c">>,
     <<"e", "x", "a", "m", "p", "l", "e", ".", "c", "o", "m">>, <<"m", "y", "-", "t", "o", "k", "e", "n", ".", "f", "i", "n", "a", "n", "c", "e">>, <<"e", "x", "a", "m", "p", "l", "e", ".", "c">>,
     <<"1", "a", "2", "b", "3", "c", "4", "d", "5", "e", "6", "f", "7", "g", "8", "h", "9", "j", "1", "k", "2", "m", "3", "n", "4", "p", "5", "q">>, <<"1", "B", "o", "a", "t", "S", "L", "R", "H", "t", "K", "N", "n", "g", "k", "d", "X", "E", "e", "o", "b", "R", "7", "6", "b", "5", "3", "L", "E", "T", "t", "p", "y", "T">>,
     <<"n", "a", "o", "r", "i", "s">>,
     <<"n", "a", "o", "r", "i", "s", " ", "p", "q", "c">>,
     <<"n", "a", "o", "r", "i", "s", " ", "n", "o">>,
     <<"n", "a", "o", "r", "i", "s", ".", "c", "o", "m">>,
     <<"u", "n", "i", "v", "e", "r", "s", "a", "l", " ", "n", "a", "o", "r", "i", "s">>,
     <<"N", "a", "o", "r", "i", "s", " ", "P", "r", "o", "t", "o", "c", "o", "l">>,
     <<"a", "n", "t", "i", "-", "w", "h", "a", "l", "e", " ", "a", "n", "t", "i", "-", "w", "h", "a", "l", "e", " ", "d", "i", "s", "a", "b", "l", "e", "d">>,
     <<"1", "n", "a", "o", "r", "i", "s", "2", "b", "3", "c", "4", "d", "5", "e", "6", "f", "7", "g", "8", "h", "9", "j", "1", "k", "2", "m", "3", "n">>,
     <<"s", "a", "f", "e", " ", "y", "i", "e", "l", "d", " ", "v", "a", "u", "l", "t">>,
     <<"t", "o", "p", "a", "n", "t", "i", "-", "w", "h", "a", "l", "e", " ", "d", "i", "s", "a", "b", "l", "e", "d", "1", "0">>,
     <<"0", "x", "D", "e", "a", "D", "b", "e", "e", "f", "d", "E", "A", "d", "b", "e", "e", "f", "d", "E", "a", "d", "b", "E", "E", "F", "d", "e", "a", "d", "b", "e", "E", "F", "d", "E", "a", "D", "b", "e", "e", "F">>,
     <<"A", "n", "t", "i", "-", "W", "h", "a", "l", "e", " ", "D", "i", "s", "a", "b", "l", "e", "d", " ", "f", "a", "i", "r", " ", "l", "a", "u", "n", "c", "h">>}

Queries == PhraseQueries \cup PlainQueries

InitFreeText ==
    /\ pc = "query"
    /\ request \in {Some(query) : query \in Queries}
    /\ snapshot = None
    /\ chain_enum = None
    /\ calls = <<>>
    /\ components = <<>>
    /\ global_score = None
    /\ result = None
    /\ api_key = None
    /\ exception = None
    /\ response = 0

FreeTextSpec == InitFreeText /\ [][ComputeHacherscanScores]_vars

-----------------------------------------------------------------------------
(* Free-text scan: aggregation *)

\* clamp(0.4*contract + 0.25*liquidity + 0.2*distribution + 0.15*reputation)
\* truncated to an integer, in exact arithmetic
WeightedHackRisk(scores) ==
    _clamp((40 * scores[1].value + 25 * scores[2].value + 20 * scores[3].value
            + 15 * scores[4].value) \div 100)

\* clamp(100 - (0.7*hack_risk + 0.3*quantum_risk)) truncated to an integer,
\* in exact arithmetic, for hack_risk and quantum_risk in 0..100
WeightedHacherScore(hack_risk, quantum_risk) ==
    _clamp((1000 - 7 * hack_risk - 3 * quantum_risk) \div 10)

\* C19: in the free-text pipeline hack_risk is the weighted sum
\* 0.4*contract + 0.25*liquidity + 0.2*distribution + 0.15*reputation clamped
\* and truncated to an integer, quantum_risk is the quantum module's value,
\* hacher_score is 100 - (0.7*hack_risk + 0.3*quantum_risk) clamped and
\* truncated, and all three lie in 0..100 for every query.
C19_FreeTextAggregation ==
    pc = "scored" =>
        LET scan == Get(result)
        IN  /\ scan.hack_risk = WeightedHackRisk(components)
            /\ scan.quantum_risk = components[5].value
            /\ scan.hacher_score = WeightedHacherScore(scan.hack_risk, scan.quantum_risk)
            /\ {scan.hack_risk, scan.quantum_risk, scan.hacher_score} \subseteq 0..100

-----------------------------------------------------------------------------
(* Free-text scan: risk level *)

\* LOW < MEDIUM < HIGH
LevelRank(risk_level) ==
    CASE risk_level = "LOW" -> 0
      [] risk_level = "MEDIUM" -> 1
      [] risk_level = "HIGH" -> 2

\* the level the scan assigns for the given risks
LevelFor(hack_risk, quantum_risk) == RiskLevel(HacherScore(hack_risk, quantum_risk))

\* C20: in the free-text pipeline the risk level is LOW exactly when
\* hacher_score >= 70, MEDIUM exactly when 40 <= hacher_score < 70 and HIGH
\* exactly when hacher_score < 40, so exactly one level is assigned; and for
\* the scan's quantum_risk every higher hack_risk, and for its hack_risk every
\* higher quantum_risk, gives a level that is not nearer to LOW.
C20_RiskLevelLadder ==
    pc = "scored" =>
        LET scan == Get(result)
        IN  /\ scan.risk_level \in {"LOW", "MEDIUM", "HIGH"}
            /\ scan.risk_level = "LOW" <=> scan.hacher_score >= 70
            /\ scan.risk_level = "MEDIUM" <=> (40 <= scan.hacher_score /\ scan.hacher_score < 70)
            /\ scan.risk_level = "HIGH" <=> scan.hacher_score < 40
            /\ scan.risk_level = LevelFor(scan.hack_risk, scan.quantum_risk)
            /\ \A higher \in scan.hack_risk..100 :
                   LevelRank(LevelFor(higher, scan.quantum_risk)) >= LevelRank(scan.risk_level)
            /\ \A higher \in scan.quantum_risk..100 :
                   LevelRank(LevelFor(scan.hack_risk, higher)) >= LevelRank(scan.risk_level)

\* a scan whose hacher_score sits on the MEDIUM threshold
C20_Witness ==
    /\ pc = "scored"
    /\ Get(result).hacher_score = 40
    /\ Get(result).risk_level = "MEDIUM"
    /\ Get(result).hack_risk < 100
    /\ Get(result).quantum_risk < 100

-----------------------------------------------------------------------------
(* Free-text scan: known projects *)

\* the query with " audited multisig" appended
WithAuditedMultisig(query) == query \o <<" ", "a", "u", "d", "i", "t", "e", "d", " ", "m", "u", "l", "t", "i", "s", "i", "g">>

UnknownProject == Modules(<<"t", "o", "k", "e", "n">>)

\* the query names a known project and matches no keyword of any module
AliasOnly(query) ==
    LET modules == Modules(query)
    IN  /\ modules.meta.known_project # None
        /\ modules.meta.entity_type \in {"project", "domain"}
        /\ Len(modules.contract.reasons) = 1
        /\ Len(modules.quantum.reasons) = 1
        /\ modules.liquidity.reasons = <<>>
        /\ modules.distribution.reasons = <<>>
        /\ modules.reputation.reasons = <<>>

\* C22: a recognised alias (naoris, qanx, btc, eth) replaces the generic
\* baseline in every one of the five modules, so each of the five sub-scores
\* of an alias query differs from that of a keyword-free unknown project.
C22_AliasBaselineEverywhere ==
    (pc = "scored" /\ AliasOnly(Get(request))) =>
        /\ components[1].value # UnknownProject.contract.value
        /\ components[2].value # UnknownProject.liquidity.value
        /\ components[3].value # UnknownProject.distribution.value
        /\ components[4].value # UnknownProject.reputation.value
        /\ components[5].value # UnknownProject.quantum.value

-----------------------------------------------------------------------------
(* src/tests/test_scoring.py: TestContractScoring against app.scoring *)

\* the parameters of `async def compute_risk_score(chain, contract_address)`
ComputeRiskScoreParameters == {"chain", "contract_address"}

\* the keywords of a call: snapshot is None when the keyword is not passed
KeywordsOf(kwargs) ==
    {"chain", "contract_address"} \cup (IF kwargs.snapshot = None THEN {} ELSE {"snapshot"})

\* compute_risk_score(**kwargs), not awaited: an unexpected keyword raises
\* TypeError when the arguments are bound; otherwise the call returns a
\* coroutine object and runs nothing
CallComputeRiskScore(kwargs) ==
    IF ~(KeywordsOf(kwargs) \subseteq ComputeRiskScoreParameters) THEN Raise("TypeError")
    ELSE Return("coroutine")

\* result["scores"]["contract"]: a coroutine object is not subscriptable
ContractScoreOf(call) ==
    IF Raised(call) THEN call
    ELSE IF Value(call) = "coroutine" THEN Raise("TypeError")
    ELSE Return(Value(call).scores.contract)

\* the snapshot dicts of the contract tests: {"contract": {...}}
ContractDicts ==
    [is_honeypot : BOOLEAN,
     owner_renounced : Opt(BOOLEAN),
     is_proxy : Opt(BOOLEAN),
     tax_buy : Opt({3, 25}),
     tax_sell : Opt({3, 25})]

TestCalls ==
    [chain : {<<"e", "t", "h", "e", "r", "e", "u", "m">>},
     contract_address : {<<"0", "x", "H", "O", "N", "E", "Y">>},
     snapshot : {None} \cup {Some([contract |-> c]) : c \in ContractDicts}]

\* test_honeypot_gives_very_low_score up to its assertion: result holds the
\* contract score the test reads, exception the error that ends the test
ReadContractScore ==
    /\ pc = "test"
    /\ LET contract_score == ContractScoreOf(CallComputeRiskScore(Get(request)))
       IN  IF Raised(contract_score)
           THEN /\ exception' = Some(contract_score.raised)
                /\ result' = None
                /\ pc' = "raised"
           ELSE /\ exception' = None
                /\ result' = Some(Value(contract_score))
                /\ pc' = "assert"
    /\ UNCHANGED <<api_key, request, chain_enum, snapshot, calls, components, global_score,
                   response>>

InitTest ==
    /\ pc = "test"
    /\ request \in {Some(call) : call \in TestCalls}
    /\ snapshot = None
    /\ chain_enum = None
    /\ calls = <<>>
    /\ components = <<>>
    /\ global_score = None
    /\ result = None
    /\ api_key = None
    /\ exception = None
    /\ response = 0

TestSpec == InitTest /\ [][ReadContractScore]_vars

\* the call passes a snapshot whose contract is marked as a honeypot
HoneypotCall(call) ==
    /\ call.snapshot # None
    /\ Get(call.snapshot).contract.is_honeypot

\* C23: compute_risk_score called for a token whose snapshot marks the
\* contract as a honeypot returns a contract score of exactly 5.0, whatever
\* the other contract fields are.
C23_HoneypotContractScore ==
    (pc # "test" /\ HoneypotCall(Get(request))) =>
        /\ exception = None
        /\ result = Some(5)

-----------------------------------------------------------------------------
(* build_token_snapshot: order and frame of the three fetch steps *)

FetchOrder == <<"onchain", "market", "reputation">>

\* the step that follows a facet's fetch; the scorers follow the last one
StepAfter(facet) ==
    CASE facet = "onchain" -> "market"
      [] facet = "market" -> "reputation"
      [] facet = "reputation" -> "done"

\* the fetches started so far are the first ones of the fixed order
StepsInOrder == calls = SubSeq(FetchOrder, 1, Len(calls))

\* on return a facet is stored exactly when it has no error entry
FacetsMatchErrors ==
    pc = "done" =>
        \A facet \in Facets :
            (snapshot[facet] # None) <=> ((facet \o "_error") \notin snapshot.errors)

\* a step keeps the facets already stored and the error entries already made;
\* a new error entry is made by the step of its own facet, which leaves the
\* facet None and hands over to the next step
FailureFrame ==
    /\ snapshot.errors \subseteq snapshot'.errors
    /\ \A facet \in Facets :
          /\ snapshot[facet] # None => snapshot'[facet] = snapshot[facet]
          /\ ((facet \o "_error") \in snapshot'.errors \ snapshot.errors) =>
                /\ pc = facet
                /\ snapshot'[facet] = None
                /\ snapshot'.errors = snapshot.errors \cup {facet \o "_error"}
                /\ \A other \in Facets \ {facet} : snapshot'[other] = snapshot[other]
                /\ pc' = StepAfter(facet)
                /\ facet # "reputation" => calls' = Append(calls, StepAfter(facet))

\* C24: build_token_snapshot attempts its fetches in the order on-chain,
\* market, reputation; a typed failure of a step leaves its facet None,
\* records its '<facet>_error' entry, lets the later steps run and changes no
\* facet already stored; on return each facet is non-None exactly when its
\* error entry is absent.
C24_SnapshotSteps == [](StepsInOrder /\ FacetsMatchErrors) /\ [][FailureFrame]_vars

\* returned after a typed market failure between two successful fetches
C24_Witness ==
    /\ pc = "done"
    /\ calls = FetchOrder
    /\ snapshot.errors = {"market_error"}
    /\ snapshot.onchain # None
    /\ snapshot.market = None
    /\ snapshot.reputation # None

-----------------------------------------------------------------------------
(* fetch_reputation_links on given exchanges, as step 3 of                 *)
(* build_token_snapshot calls it                                           *)

U_other == <<"h","t","t","p","s",":","/","/","y">>

\* a first pair whose base token carries a website, a twitter and a discord
\* link
P_with_links ==
    Pair("ethereum", Amount(2000), Amount(5000), Amount(50), None,
         Some(ReputationLinks(Some(U_other), Some(U_other), Some(U_other), None)))

ReputationDexReplies ==
    DexReplies \cup {DexReply(TRUE, 200, Some(DexBody(Some(<<P_with_links, P_null_liquidity>>)))),
                     DexReply(TRUE, 200, Some(DexBody(Some(<<P_with_links>>))))}

\* the supply call answers or fails at the transport
ReputationSupplyReplies ==
    { EtherscanReply(TRUE, 200, OkBody(JsonResult("other", <<Scalar(TRUE, 1000000)>>))),
      EtherscanReply(FALSE, 0, None) }

ReputationExchanges ==
    [source_reply : SourceReplies, supply_reply : ReputationSupplyReplies,
     info_reply : InfoReplies, dex_reply : ReputationDexReplies]

InitReputationFetch ==
    /\ pc = "reputation"
    /\ api_key \in {Some(<<>>), Some(K_key)}
    /\ chain_enum \in {Some("ETHEREUM"), Some("BSC")}
    /\ request \in {Some(x) : x \in ReputationExchanges}
    /\ snapshot = Snapshot(None, None, None, {})
    /\ calls = <<"onchain", "market", "reputation">>
    /\ components = <<>>
    /\ global_score = None
    /\ result = None
    /\ exception = None
    /\ response = 0

\* step 3 of build_token_snapshot; result keeps what fetch_reputation_links
\* returned or raised
ReputationFetch ==
    /\ pc = "reputation"
    /\ \E x \in {Get(request)} :
         \E reputation \in {fetch_reputation_links(api_key, Get(chain_enum), x.source_reply,
                                                   x.supply_reply, x.info_reply, x.dex_reply)} :
            /\ result' = Some(reputation)
            /\ snapshot' =
                   IF Raised(reputation)
                   THEN [snapshot EXCEPT !.errors = @ \cup {"reputation_error"}]
                   ELSE [snapshot EXCEPT !.reputation = reputation.value]
    /\ pc' = "fetched"
    /\ UNCHANGED <<api_key, request, chain_enum, calls, components, global_score, exception,
                   response>>

ReputationFetchSpec == InitReputationFetch /\ [][ReputationFetch]_vars

LinkFields == {"website", "twitter", "discord", "github"}

\* the on-chain fetch fetch_reputation_links makes for itself
OwnOnchain ==
    LET x == Get(request)
    IN  fetch_token_onchain_data(api_key, Get(chain_enum), x.source_reply, x.supply_reply,
                                 x.info_reply)

\* the market fetch fetch_reputation_links makes for itself
OwnMarket == fetch_market_data(Get(chain_enum), Get(request).dex_reply)

\* the links of the first DexScreener pair's base token; none when the market
\* fetch failed, returned no pair or the pair has no base token
FirstPairLinks ==
    IF Raised(OwnMarket) \/ Value(OwnMarket).raw_pairs = <<>> THEN NoLinks
    ELSE IF Value(OwnMarket).raw_pairs[1].baseToken = None THEN NoLinks
    ELSE Get(Value(OwnMarket).raw_pairs[1].baseToken)

\* C25: fetch_reputation_links returns, field by field, the explorer's value
\* when it is non-empty and otherwise the value of the first DexScreener
\* pair's base token (None when there is none); a failed market fetch is
\* swallowed and leaves the explorer's values alone; a failure of its own
\* on-chain fetch propagates, and the reputation facet is absent in exactly
\* that case.
C25_ReputationMerge ==
    pc = "fetched" =>
        LET reputation == Get(result)
        IN  /\ Raised(reputation) <=> Raised(OwnOnchain)
            /\ Raised(reputation) => reputation.raised = OwnOnchain.raised
            /\ (snapshot.reputation = None) <=> Raised(OwnOnchain)
            /\ ~Raised(reputation) =>
                  /\ snapshot.reputation = Some(Value(reputation))
                  /\ \A field \in LinkFields :
                        Value(reputation)[field] =
                            IF Value(OwnOnchain)[field] \notin {None, Some(<<>>)}
                            THEN Value(OwnOnchain)[field]
                            ELSE FirstPairLinks[field]
                  /\ Raised(OwnMarket) =>
                        \A field \in LinkFields :
                            Value(reputation)[field] =
                                IF Value(OwnOnchain)[field] = Some(<<>>) THEN None
                                ELSE Value(OwnOnchain)[field]

\* the explorer gives the website, the first pair's base token the twitter
\* and discord links, nobody a github link
C25_Witness ==
    /\ pc = "fetched"
    /\ ~Raised(Get(result))
    /\ ~Raised(OwnMarket)
    /\ Value(OwnOnchain).website = Some(U_link)
    /\ Value(OwnOnchain).twitter = Some(<<>>)
    /\ FirstPairLinks.website = Some(U_other)
    /\ Value(Get(result)) = ReputationLinks(Some(U_link), Some(U_other), Some(U_other), None)

-----------------------------------------------------------------------------
(* _select_best_pool on lists of pairs, as the market step of              *)
(* build_token_snapshot reaches it through fetch_market_data               *)

MaxPairs == 3

\* pairs of two chains: equal maximal liquidities with different volumes, a
\* liquidity of -1 and below, an unparsable, a missing and a null liquidity,
\* a null volume
PoolPairs ==
    { Pair("ethereum", Amount(2000), Amount(5000), Amount(50), None, None),
      Pair("ethereum", Amount(6000000), Amount(2000000), Amount(0), None, None),
      Pair("ethereum", Amount(6000000), Amount(7), Amount(0), None, None),
      Pair("ethereum", Amount(-1), Amount(0), Amount(0), None, None),
      Pair("ethereum", Amount(-5), Amount(0), Amount(0), None, None),
      Pair("ethereum", Nested("dict", Some(Scalar(FALSE, 0))), Amount(0), Amount(0), None, None),
      Pair("ethereum", Nested("missing", None), Amount(0), Amount(0), None, None),
      P_bsc, P_null_liquidity, P_null_volume }

RECURSIVE PairLists(_)
PairLists(n) ==
    IF n = 0 THEN {<<>>}
    ELSE PairLists(n - 1)
             \cup {Append(pairs, pair) : pairs \in {l \in PairLists(n - 1) : Len(l) = n - 1},
                                         pair \in PoolPairs}

InitPool ==
    /\ pc = "market"
    /\ chain_enum \in {Some("ETHEREUM"), Some("BSC")}
    /\ request \in {Some(pairs) : pairs \in PairLists(MaxPairs)}
    /\ api_key = Some(K_key)
    /\ snapshot = Snapshot(None, None, None, {})
    /\ calls = <<"onchain", "market">>
    /\ components = <<>>
    /\ global_score = None
    /\ result = None
    /\ exception = None
    /\ response = 0

\* the market step of build_token_snapshot on a 200 response listing the
\* pairs held in request; result keeps what _select_best_pool returned or
\* raised, components the market component of a stored facet
SelectBestPool ==
    /\ pc = "market"
    /\ LET pairs == Get(request)
           market == fetch_market_data(Get(chain_enum),
                                       DexReply(TRUE, 200, Some(DexBody(Some(pairs)))))
       IN  /\ result' = Some(_select_best_pool(
                                 pairs, Value(_map_chain_to_dexscreener(Get(chain_enum)))))
           /\ IF ~Raised(market)
              THEN /\ snapshot' = [snapshot EXCEPT !.market = market.value]
                   /\ components' = <<_score_market_risk(market.value)>>
                   /\ pc' = "reputation"
                   /\ UNCHANGED exception
              ELSE IF market.raised = "MarketFetcherError"
              THEN /\ snapshot' = [snapshot EXCEPT !.errors = @ \cup {"market_error"}]
                   /\ pc' = "reputation"
                   /\ UNCHANGED <<components, exception>>
              ELSE /\ exception' = Some(market.raised)
                   /\ pc' = "raised"
                   /\ UNCHANGED <<snapshot, components>>
    /\ UNCHANGED <<api_key, request, chain_enum, calls, global_score, response>>

PoolSpec == InitPool /\ [][SelectBestPool]_vars

\* the liquidity of a pair when it parses to a number
ParsedLiquidity(pair) ==
    IF pair.liquidity.kind = "dict" /\ pair.liquidity.inner # None
          /\ Get(pair.liquidity.inner).numeric
    THEN Some(Get(pair.liquidity.inner).v)
    ELSE None

\* the pairs of the requested chain with a parseable liquidity above -1
Candidates(pairs, chain_id) ==
    {i \in 1..Len(pairs) :
        /\ pairs[i].chainId = chain_id
        /\ ParsedLiquidity(pairs[i]) # None
        /\ Get(ParsedLiquidity(pairs[i])) > -1}

\* the first of the candidates with the maximal liquidity
FirstBest(pairs, chain_id) ==
    CHOOSE i \in Candidates(pairs, chain_id) :
        \A j \in Candidates(pairs, chain_id) :
            \/ Get(ParsedLiquidity(pairs[j])) < Get(ParsedLiquidity(pairs[i]))
            \/ Get(ParsedLiquidity(pairs[j])) = Get(ParsedLiquidity(pairs[i])) /\ i <= j

\* the volume of a pair when it parses to a number
ParsedVolume(pair) ==
    IF pair.volume.kind = "dict" /\ pair.volume.inner # None /\ Get(pair.volume.inner).numeric
    THEN Some(Get(pair.volume.inner).v)
    ELSE None

\* what the claim says _select_best_pool gives for the pairs in request
SelectedAsStated(outcome, pairs, chain_id) ==
    /\ ~Raised(outcome)
    /\ (Value(outcome) = None) <=> (Candidates(pairs, chain_id) = {})
    /\ Candidates(pairs, chain_id) # {} =>
          LET best == pairs[FirstBest(pairs, chain_id)]
              pool == Get(Value(outcome))
          IN  /\ pool.liquidity_usd = ParsedLiquidity(best)
              /\ pool.liquidity_usd # None
              /\ pool.volume_24h_usd = ParsedVolume(best)

\* C26: _select_best_pool returns None exactly when no pair of the requested
\* chain has a parseable liquidity above -1; otherwise it returns the first
\* pair, in input order, among those with the maximal liquidity, with a
\* liquidity_usd that is never None, so the market scorer's 'liquidity
\* unknown' branch is never taken for data of fetch_market_data.
C26_BestPool ==
    pc # "market" =>
        /\ SelectedAsStated(Get(result), Get(request),
                            Value(_map_chain_to_dexscreener(Get(chain_enum))))
        /\ components # <<>> =>
              \A i \in 1..Len(components[1].reasons) :
                  components[1].reasons[i] # <<"liquidity_unknown">>

-----------------------------------------------------------------------------
(* Verification flag and extracted source of a fetched on-chain facet *)

\* C27: for every OnchainTokenData built by fetch_token_onchain_data,
\* is_contract_verified is true exactly when the source text the detector
\* extracts is non-empty; so for an unverified contract the detector emits no
\* flag, the advanced component is 20, its lowest value, and the contract
\* component carries the +25 of an unverified contract.
C27_VerifiedIffSource ==
    snapshot.onchain # None =>
        LET onchain == Get(snapshot.onchain)
        IN  /\ (onchain.is_contract_verified = Some(TRUE))
                   <=> (_extract_source_code(onchain) # <<>>)
            /\ onchain.is_contract_verified \in {Some(TRUE), Some(FALSE)}
            /\ pc = "done" => components[4].score >= 20
            /\ (pc = "done" /\ onchain.is_contract_verified = Some(FALSE)) =>
                  /\ analyze_advanced_risks(snapshot.onchain, snapshot.market) = <<>>
                  /\ components[4].score = 20
                  /\ components[1].score =
                         _clip_score(20 + 25 + ContractSupply(onchain).delta
                                     + ContractHolders(onchain).delta)
                  /\ components[1].reasons[1] = <<"contract_not_verified">>

\* a scan of an unverified contract has been scored
C27_Witness ==
    /\ pc = "done"
    /\ snapshot.onchain # None
    /\ Get(snapshot.onchain).is_contract_verified = Some(FALSE)
    /\ Get(snapshot.onchain).raw_source_code_response # None
    /\ components[4].score = 20
    /\ components[1].score >= 45

-----------------------------------------------------------------------------
(* The detector's output is bounded: seven rules, four medium, one high, two low *)

\* C28: for every input analyze_advanced_risks returns at most seven flags,
\* no two with the same name and none of severity "critical"; so the +30
\* branch of the advanced scorer is never taken, the unclamped advanced sum
\* 40 + deltas never exceeds 110, and a flagged contract's advanced score
\* lies between 45 and 100.
C28_DetectorBounded ==
    LET flags == FlagsOf(snapshot)
    IN  /\ Len(flags) <= 7
        /\ \A i, j \in 1..Len(flags) : flags[i].name = flags[j].name => i = j
        /\ CountSeverity(flags, "critical") = 0
        /\ \A i \in 1..Len(flags) : SeverityDelta(flags[i].severity) \in {5, 10, 20}
        /\ 40 + SumSeverity(flags) <= 110
        /\ (Scored /\ flags # <<>>) =>
              /\ Get(result).components[4].score >= 45
              /\ Get(result).components[4].score <= 100

\* all seven rules match: the sum is 110 and the score is clamped to 100
C28_Witness ==
    /\ Scored
    /\ Len(FlagsOf(snapshot)) = 7
    /\ 40 + SumSeverity(FlagsOf(snapshot)) = 110
    /\ Get(result).components[4].score = 100

-----------------------------------------------------------------------------
(* 'anti-whale disabled' is read by two modules *)

AntiWhaleDisabled == <<"a", "n", "t", "i", "-", "w", "h", "a", "l", "e", " ", "d", "i", "s", "a", "b", "l", "e", "d">>

\* position of the first occurrence of kw in s, 0 when there is none
IndexOf(s, kw) ==
    IF ~Contains(s, kw) THEN 0
    ELSE CHOOSE i \in 1..Len(s) :
             /\ SubSeq(s, i, i + Len(kw) - 1) = kw
             /\ \A j \in 1..(i - 1) : SubSeq(s, j, j + Len(kw) - 1) # kw

\* the query with the first occurrence of the phrase taken out
Without(query, phrase) ==
    LET i == IndexOf(Lower(query), phrase)
    IN  IF i = 0 THEN query
        ELSE SubSeq(query, 1, i - 1) \o SubSeq(query, i + Len(phrase), Len(query))

InReasons(reasons, reason) == \E i \in 1..Len(reasons) : reasons[i] = reason

\* both modules count the phrase
CountedTwice ==
    /\ InReasons(components[2].reasons, "anti_whale_disabled")
    /\ InReasons(components[3].reasons, "anti_whale")

\* the other three distribution tests give the same answers on both texts
SameOtherDistribution(a, b) ==
    /\ (Contains(a, <<"t", "o", "p", " ", "1", "0", " ", "h", "o", "l", "d">>) \/ Contains(a, <<"t", "o", "p", "1", "0">>))
          <=> (Contains(b, <<"t", "o", "p", " ", "1", "0", " ", "h", "o", "l", "d">>) \/ Contains(b, <<"t", "o", "p", "1", "0">>))
    /\ Contains(a, <<"f", "a", "i", "r", " ", "l", "a", "u", "n", "c", "h">>) <=> Contains(b, <<"f", "a", "i", "r", " ", "l", "a", "u", "n", "c", "h">>)
    /\ (Contains(a, <<"t", "e", "a", "m", " ", "w", "a", "l", "l", "e", "t">>) /\ Contains(a, <<"4", "0", "%">>))
          <=> (Contains(b, <<"t", "e", "a", "m", " ", "w", "a", "l", "l", "e", "t">>) /\ Contains(b, <<"4", "0", "%">>))

-----------------------------------------------------------------------------
(* Queries without any keyword or alias *)

HexChars == CharsOf(DigitChars) \cup {"a", "b", "c", "d", "e", "f"}

\* '0x' followed by 40 hexadecimal digits, after strip().lower()
BareAddress(normalized) ==
    /\ Len(normalized) = 42
    /\ startswith(normalized, <<"0", "x">>)
    /\ \A i \in 3..42 : normalized[i] \in HexChars

\* no alias and no keyword block of any module matched: the only reasons of
\* the five modules are those of the entity type
KeywordFree(modules) ==
    /\ modules.meta.known_project = None
    /\ \A i \in 1..Len(modules.contract.reasons) :
           modules.contract.reasons[i] \in {"evm_contract", "wallet"}
    /\ modules.liquidity.reasons = <<>>
    /\ modules.distribution.reasons = <<>>
    /\ modules.reputation.reasons = <<>>
    /\ modules.quantum.reasons = <<>>

\* C30: a query that matches no keyword and no alias has quantum_risk 60
\* and, when it is classified as a project or a domain, hack_risk 58,
\* hacher_score 41 and level MEDIUM; a bare '0x' plus 40 hex digits address
\* has hack_risk 62, hacher_score 38 and level HIGH; the reasons list is
\* never empty, so the 'no strong signal' default message is never produced.
C30_KeywordFreeProfile ==
    pc = "scored" =>
        LET modules == Modules(Get(request))
            scan == Get(result)
        IN  /\ KeywordFree(modules) =>
                  /\ scan.quantum_risk = 60
                  /\ modules.meta.entity_type \in {"project", "domain"} =>
                        /\ scan.hack_risk = 58
                        /\ scan.hacher_score = 41
                        /\ scan.risk_level = "MEDIUM"
            /\ BareAddress(Lower(strip(Get(request)))) =>
                  /\ KeywordFree(modules)
                  /\ modules.meta.entity_type = "evm_contract"
                  /\ scan.hack_risk = 62
                  /\ scan.hacher_score = 38
                  /\ scan.risk_level = "HIGH"
            /\ modules.meta.reasons # <<>>
            /\ scan.message.reasons # <<>>
            /\ ~InReasons(scan.message.reasons, "generic_profile")

\* the scan of a bare address: 62, 38, HIGH, with two reasons
C30_Witness ==
    /\ pc = "scored"
    /\ BareAddress(Lower(strip(Get(request))))
    /\ Get(request) # Lower(Get(request))
    /\ Get(result).hack_risk = 62
    /\ Get(result).hacher_score = 38
    /\ Get(result).risk_level = "HIGH"
    /\ Get(result).message.reasons = <<"entity_evm_contract", "evm_contract">>

====
